---------------------------- MODULE Spec2Model ----------------------------
(***************************************************************************)
(* Caldarium: template fingerprinting / classification                     *)
(* (template_detector.py) and the field extraction pipelines               *)
(* (parser_prototype.py, consentform_parser.py, invoice_parser.py).        *)
(*                                                                         *)
(* Numbers.  Python floats are modelled in fixed point.  A score is an     *)
(* integer number of 1/200ths (ScoreOne = 1.0): the cosine is truncated to *)
(* 1/100ths and stored doubled, so that every score entering the penalty   *)
(* is even and "score *= 0.5" is exact, as it is for IEEE doubles.         *)
(* Fingerprint slots are small integers; the cosine does not depend on     *)
(* their common unit.                                                      *)
(*                                                                         *)
(* Text.  A text is a sequence of fragments of a fixed universe; a regular  *)
(* expression search is modelled by the fragments it matches and what it   *)
(* captures there.  Python None is the string Null for scalar fields.      *)
(***************************************************************************)
EXTENDS Integers, Sequences, FiniteSets, TLC

VARIABLES
    storeFile,     \* known_template_fingerprints.json on disk
    detectionLog,  \* template_detection_report.jsonl: the lines appended so far
    op,            \* the operation called last
    arg,           \* its input
    outcome,       \* "returned" or "raised" (an exception reached the caller)
    ret,           \* the value returned (the exception's name when raised)
    session,       \* history: the first pipeline classification of a session
    build          \* build_template_fps.py: where main is, and its template_fps

vars == <<storeFile, detectionLog, op, arg, outcome, ret, session, build>>

Null == "null"

\* What a call returns or raises.
Returned(v) == [raised |-> FALSE, value |-> v]
Raised(e) == [raised |-> TRUE, value |-> e]

\* ------------------------------------------------------------------ bounds
MaxProfiles == 2        \* profiles in a store
MaxLogLines == 1        \* lines the detection log may grow to
MaxMoneyLen == 3         \* characters of an amount string
MaxHeaderLines == 3      \* lines of an invoice text with bare dates

\* ------------------------------------------------------------- constants
ScoreOne == 200             \* 1.0 in score units
FontBonus == 10             \* 0.05
ConsentBonus == 100         \* 0.5
DefaultThreshold == 170     \* 0.85
CosUnits == ScoreOne \div 2  \* the cosine is truncated to 1/CosUnits

\* -------------------------------------------------------------------- text
\* A text is a sequence of fragments (lines, or a few lines kept together), in
\* reading order.  The fragments of the model:
L_HSU == "HOT SPRINGS GENERAL HOSPITAL"
L_HST == "Hot Springs General Hospital"
L_RPC == "ROSE PETAL CLINIC"
L_WPH == "White Petal Hospital Center"
L_WPH2 == "White Petal Hospital  Center"        \* two blanks, as laid out
L_ACC == "Account No AC-7"
L_ADDR == "Address: 12 Main St, Springfield, IL 62704"
L_DUE == "Due Date: 2020-04-30"
L_DUE2 == "Due  Date: 2020-04-30"               \* two blanks, as laid out
L_OMS == "The Occupational Medical Service will only utilize a signed"
L_HIPAA == "HIPAA Authorization Form"
L_PNAME == "5. PRINT NAME OF PATIENT Courtney Wilcox"
L_PROV == "NAME Dr. Steven Walker PHONE 406-647-6837"
L_SEC1 == "Section 1 - First Name: Courtney / Last Name: Thomas / Section 2 -"

Has(txt, frags) == \E i \in 1..Len(txt) : txt[i] \in frags

\* The subsequence of `master` made of the fragments in `keep`.
Pick(master, keep) == SelectSeq(master, LAMBDA f : f \in keep)

\* A document as the layout provider (pdfplumber) yields it.
\*   kind: "missing" (no such file), "corrupt" (open raises) or "pdf"
\*   pages: each [width, height, chars, text]; chars are [y0, size, fontname];
\*   text = <<>> is a page without extractable text.
Char(y, sz, f) == [y0 |-> y, size |-> sz, fontname |-> f]
Page(w, h, chars, txt) == [width |-> w, height |-> h, chars |-> chars, text |-> txt]
Doc(kind, pages) == [kind |-> kind, pages |-> pages]

\* ------------------------------------------------------------ fingerprints
NAME_KEYS == <<"kw_hot_springs", "kw_rose_petal", "kw_white_petal">>
CONSENT_KEYS == <<"kw_consent", "kw_hipaa", "kw_authorization">>

\* A fingerprint dict as detect_template_signature builds it.
MkFingerprint(pc, w, h, hd, ft, bd, fs, fonts, hs, rp, wp, cl, ho, co, hi, au) ==
    [ page_count |-> pc, avg_width |-> w, avg_height |-> h,
      header_text_density |-> hd, footer_text_density |-> ft,
      body_text_density |-> bd, avg_font_size |-> fs, top_fonts |-> fonts,
      kw_hot_springs |-> hs, kw_rose_petal |-> rp, kw_white_petal |-> wp,
      kw_clinic |-> cl, kw_hospital |-> ho,
      kw_consent |-> co, kw_hipaa |-> hi, kw_authorization |-> au ]

\* A value of the store's JSON object: a fingerprint dict, or some other JSON
\* value (null, a list, a dict with a non-numeric slot) on which scoring raises.
JsonDict(fp) == [is_fp |-> TRUE, fp |-> fp]
JsonOther == [is_fp |-> FALSE]

_fp_to_vector(fp) ==
    << fp.page_count, fp.avg_width, fp.avg_height,
       fp.header_text_density, fp.footer_text_density, fp.body_text_density,
       fp.avg_font_size,
       fp.kw_hot_springs, fp.kw_rose_petal, fp.kw_white_petal,
       fp.kw_clinic, fp.kw_hospital,
       fp.kw_consent, fp.kw_hipaa, fp.kw_authorization >>

RECURSIVE SumProducts(_, _, _)
SumProducts(v1, v2, i) ==
    IF i > Len(v1) \/ i > Len(v2) THEN 0
    ELSE v1[i] * v2[i] + SumProducts(v1, v2, i + 1)

\* The largest j in lo..hi with j * j * n <= d2 (lo is known to satisfy it).
RECURSIVE FloorRoot(_, _, _, _)
FloorRoot(lo, hi, n, d2) ==
    IF lo >= hi THEN lo
    ELSE LET mid == (lo + hi + 1) \div 2
         IN  IF mid * mid * n <= d2 THEN FloorRoot(mid, hi, n, d2)
             ELSE FloorRoot(lo, mid - 1, n, d2)

\* dot / (norm1 * norm2) in score units: the largest k/CosUnits not above
\* |dot| / sqrt(n1 * n2), with the sign of dot, doubled.
_cosine_similarity(v1, v2) ==
    LET dot == SumProducts(v1, v2, 1)
        n1 == SumProducts(v1, v1, 1)
        n2 == SumProducts(v2, v2, 1)
        k == FloorRoot(0, CosUnits, n1 * n2, CosUnits * CosUnits * dot * dot)
    IN  IF n1 = 0 \/ n2 = 0 THEN 0
        ELSE IF dot < 0 THEN -(2 * k) ELSE 2 * k

Min2(a, b) == IF a < b THEN a ELSE b
Max2(a, b) == IF a > b THEN a ELSE b
\* Mutant: the clamp forgets the upper end.
Clamp01_noUpper(s) == Max2(0, s)
Clamp01(s) == Max2(0, Min2(ScoreOne, s))

\* The unit of the float slots a fingerprint is built with: a slot holds
\* FpUnit times the Python value (float(sum(lst) / len(lst)), count / total).
FpUnit == 2

KEYWORD_GROUPS ==
    << "kw_hot_springs", "kw_rose_petal", "kw_white_petal", "kw_clinic",
       "kw_hospital", "kw_consent", "kw_hipaa", "kw_authorization" >>

\* sum of full_text.count(p.lower()) over the phrases p of a keyword group,
\* for the lowercased text of one fragment.
KeywordCount(feat_name, frag) ==
    IF frag \in {L_HSU, L_HST}
    THEN (IF feat_name = "kw_hot_springs" THEN 2
          ELSE IF feat_name = "kw_hospital" THEN 1 ELSE 0)
    ELSE IF frag = L_RPC
    THEN (IF feat_name = "kw_rose_petal" THEN 2
          ELSE IF feat_name = "kw_clinic" THEN 1 ELSE 0)
    ELSE IF frag \in {L_WPH, L_WPH2}
    THEN (IF feat_name = "kw_white_petal" THEN 2
          ELSE IF feat_name = "kw_hospital" THEN 1 ELSE 0)
    ELSE IF frag = L_HIPAA
    THEN (IF feat_name \in {"kw_hipaa", "kw_authorization"} THEN 2 ELSE 0)
    ELSE 0

RECURSIVE SumSeq(_, _)
SumSeq(lst, i) == IF i > Len(lst) THEN 0 ELSE lst[i] + SumSeq(lst, i + 1)

RECURSIVE Concat(_, _)
Concat(seqs, i) == IF i > Len(seqs) THEN <<>> ELSE seqs[i] \o Concat(seqs, i + 1)

\* avg(lst) of detect_template_signature, in slot units.
avg(lst) == IF lst = <<>> THEN 0 ELSE (FpUnit * SumSeq(lst, 1)) \div Len(lst)

\* [f for f, _ in Counter(all_fonts).most_common(n)]: by count, the font seen
\* first before the others of the same count.
most_common(all_fonts, n) ==
    LET S == {all_fonts[i] : i \in 1..Len(all_fonts)}
        Count(f) == Cardinality({i \in 1..Len(all_fonts) : all_fonts[i] = f})
        First(f) == CHOOSE i \in 1..Len(all_fonts) :
                        all_fonts[i] = f /\ \A j \in 1..(i - 1) : all_fonts[j] # f
        Before(g, f) == Count(g) > Count(f)
                        \/ (Count(g) = Count(f) /\ First(g) < First(f))
        Pos(f) == 1 + Cardinality({g \in S : Before(g, f)})
    IN  [i \in 1..Min2(n, Cardinality(S)) |-> CHOOSE f \in S : Pos(f) = i]

\* The zone of a character on a page of height h: header_y = h * 0.8,
\* footer_y = h * 0.2.
Zone(ch, h) ==
    IF 10 * ch.y0 >= 8 * h THEN "header"
    ELSE IF 10 * ch.y0 <= 2 * h THEN "footer"
    ELSE "body"

\* Mutant: the densities are divided without the `if total_chars` guard.
detect_template_signature_unguarded(doc) ==
    IF doc.kind = "missing" THEN Raised("FileNotFoundError")
    ELSE IF doc.kind = "corrupt" THEN Raised("PDFSyntaxError")
    ELSE
    LET pages == doc.pages
        widths == [i \in 1..Len(pages) |-> pages[i].width]
        heights == [i \in 1..Len(pages) |-> pages[i].height]
        zones == Concat([i \in 1..Len(pages) |->
                    [j \in 1..Len(pages[i].chars) |->
                        Zone(pages[i].chars[j], pages[i].height)]], 1)
        chars == Concat([i \in 1..Len(pages) |-> pages[i].chars], 1)
        total_chars == Len(chars)
        InZone(z) == Cardinality({j \in 1..Len(zones) : zones[j] = z})
        density(z) == IF total_chars = 0 THEN 0
                      ELSE (FpUnit * InZone(z)) \div total_chars
        full_text == Concat([i \in 1..Len(pages) |-> pages[i].text], 1)
        kw(feat_name) ==
            FpUnit * SumSeq([j \in 1..Len(full_text) |->
                                KeywordCount(feat_name, full_text[j])], 1)
    IN  IF total_chars = 0 THEN Raised("ZeroDivisionError")
        ELSE Returned(MkFingerprint(
            FpUnit * Len(pages), avg(widths), avg(heights),
            density("header"), density("footer"), density("body"),
            avg([j \in 1..Len(chars) |-> chars[j].size]),
            most_common([j \in 1..Len(chars) |-> chars[j].fontname], 3),
            kw("kw_hot_springs"), kw("kw_rose_petal"), kw("kw_white_petal"),
            kw("kw_clinic"), kw("kw_hospital"),
            kw("kw_consent"), kw("kw_hipaa"), kw("kw_authorization")))
detect_template_signature(doc) ==
    IF doc.kind = "missing" THEN Raised("FileNotFoundError")
    ELSE IF doc.kind = "corrupt" THEN Raised("PDFSyntaxError")
    ELSE
    LET pages == doc.pages
        widths == [i \in 1..Len(pages) |-> pages[i].width]
        heights == [i \in 1..Len(pages) |-> pages[i].height]
        zones == Concat([i \in 1..Len(pages) |->
                    [j \in 1..Len(pages[i].chars) |->
                        Zone(pages[i].chars[j], pages[i].height)]], 1)
        chars == Concat([i \in 1..Len(pages) |-> pages[i].chars], 1)
        total_chars == Len(chars)
        InZone(z) == Cardinality({j \in 1..Len(zones) : zones[j] = z})
        density(z) == IF total_chars = 0 THEN 0
                      ELSE (FpUnit * InZone(z)) \div total_chars
        full_text == Concat([i \in 1..Len(pages) |-> pages[i].text], 1)
        kw(feat_name) ==
            FpUnit * SumSeq([j \in 1..Len(full_text) |->
                                KeywordCount(feat_name, full_text[j])], 1)
    IN  Returned(MkFingerprint(
            FpUnit * Len(pages), avg(widths), avg(heights),
            density("header"), density("footer"), density("body"),
            avg([j \in 1..Len(chars) |-> chars[j].size]),
            most_common([j \in 1..Len(chars) |-> chars[j].fontname], 3),
            kw("kw_hot_springs"), kw("kw_rose_petal"), kw("kw_white_petal"),
            kw("kw_clinic"), kw("kw_hospital"),
            kw("kw_consent"), kw("kw_hipaa"), kw("kw_authorization")))

has_any_name(fp1) == \E i \in 1..Len(NAME_KEYS) : fp1[NAME_KEYS[i]] > 0
has_consent_keywords(fp1) == \E i \in 1..Len(CONSENT_KEYS) : fp1[CONSENT_KEYS[i]] > 0

font_bonus(fp1, fp2) ==
    IF fp1.top_fonts # <<>> /\ fp2.top_fonts # <<>>
       /\ fp1.top_fonts[1] = fp2.top_fonts[1]
    THEN FontBonus ELSE 0

\* The value of `score` after line 263 (base + font bonus, clamped).
ScoreAfterFont(fp1, fp2) ==
    Clamp01(_cosine_similarity(_fp_to_vector(fp1), _fp_to_vector(fp2))
            + font_bonus(fp1, fp2))

\* Mutant: the penalty quarters the score.
ScoreAfterPenalty_quarter(fp1, fp2) ==
    IF ~has_any_name(fp1) THEN ScoreAfterFont(fp1, fp2) \div 4
    ELSE ScoreAfterFont(fp1, fp2)

\* The value of `score` after line 269 (the 50% penalty).
ScoreAfterPenalty(fp1, fp2) ==
    IF ~has_any_name(fp1) THEN ScoreAfterFont(fp1, fp2) \div 2
    ELSE ScoreAfterFont(fp1, fp2)

\* Mutant: the consent bonus is 0.25.
ScoreBeforeFinalClamp_halfBonus(fp1, fp2) ==
    IF has_consent_keywords(fp1)
    THEN ScoreAfterPenalty(fp1, fp2) + (ConsentBonus \div 2)
    ELSE ScoreAfterPenalty(fp1, fp2)
\* The value of `score` at line 275, before the final clamp.
ScoreBeforeFinalClamp(fp1, fp2) ==
    IF has_consent_keywords(fp1) THEN ScoreAfterPenalty(fp1, fp2) + ConsentBonus
    ELSE ScoreAfterPenalty(fp1, fp2)

fingerprint_similarity(fp1, fp2) == Clamp01(ScoreBeforeFinalClamp(fp1, fp2))

\* ------------------------------------------------------------ classification
\* A profile store is the JSON object in file order: a sequence of
\* [template_id, value] with distinct template_ids.
TemplateIds == <<"T1_hot_springs", "T2_rose_petal", "T3_white_petal", "nih_consent">>


\* Mutant: the loader answers from the detection log, the empty store once a
\* detection has been logged.
load_known_fingerprints_afterLog(file) ==
    IF detectionLog > 0 \/ file.state = "missing" THEN Returned(<<>>)
    ELSE IF file.state = "corrupt" THEN Raised("JSONDecodeError")
    ELSE Returned(file.data)
\* load_known_fingerprints: {} when the file is missing, json.load otherwise.
load_known_fingerprints(file) ==
    IF file.state = "missing" THEN Returned(<<>>)
    ELSE IF file.state = "corrupt" THEN Raised("JSONDecodeError")
    ELSE Returned(file.data)

\* average_fingerprints(fps) of the profile builder, fps not empty: the mean
\* of each of the seven numeric_keys; the fonts of the exemplars' top_fonts
\* by count (sorted() is stable, so the first seen comes first among equals).
\* No kw_* key is written: each reads as 0 through fp.get(key, 0.0).
average_fingerprints(fps) ==
    LET mean(key) == SumSeq([i \in 1..Len(fps) |-> fps[i][key]], 1) \div Len(fps)
        fonts == Concat([i \in 1..Len(fps) |-> fps[i].top_fonts], 1)
    IN  MkFingerprint(mean("page_count"), mean("avg_width"), mean("avg_height"),
                      mean("header_text_density"), mean("footer_text_density"),
                      mean("body_text_density"), mean("avg_font_size"),
                      most_common(fonts, 3), 0, 0, 0, 0, 0, 0, 0, 0)

\* template_fps of build_template_fps.main for the folders of
\* known_templates: one profile per folder that holds an exemplar.
main(folders) ==
    LET sigs(i) == [j \in 1..Len(folders[i].docs) |->
                        detect_template_signature(folders[i].docs[j])]
        kept == SelectSeq([i \in 1..Len(folders) |-> i],
                          LAMBDA i : folders[i].docs # <<>>)
    IN  IF \E i \in 1..Len(folders) : \E j \in 1..Len(folders[i].docs) :
              sigs(i)[j].raised
        THEN Raised("PDFSyntaxError")
        ELSE Returned([k \in 1..Len(kept) |->
                [template_id |-> folders[kept[k]].template_id,
                 value |-> JsonDict(average_fingerprints(
                    [j \in 1..Len(folders[kept[k]].docs) |->
                        sigs(kept[k])[j].value]))]])

\* Mutant: ">=" for ">", so the last of several equal scores wins.
RECURSIVE BestFrom_lastWins(_, _, _, _, _)
BestFrom_lastWins(signature, known, i, best_id, best_score) ==
    IF i > Len(known) THEN <<best_id, best_score>>
    ELSE IF ~known[i].value.is_fp
         THEN BestFrom_lastWins(signature, known, i + 1, best_id, best_score)
         ELSE LET score == fingerprint_similarity(signature, known[i].value.fp)
              IN  IF score >= best_score
                  THEN BestFrom_lastWins(signature, known, i + 1,
                                         known[i].template_id, score)
                  ELSE BestFrom_lastWins(signature, known, i + 1, best_id, best_score)

\* The loop of lines 311-320 from entry i on: <<best_id, best_score>>.
RECURSIVE BestFrom(_, _, _, _, _)
BestFrom(signature, known, i, best_id, best_score) ==
    IF i > Len(known) THEN <<best_id, best_score>>
    ELSE IF ~known[i].value.is_fp
         THEN BestFrom(signature, known, i + 1, best_id, best_score)
         ELSE LET score == fingerprint_similarity(signature, known[i].value.fp)
              IN  IF score > best_score
                  THEN BestFrom(signature, known, i + 1, known[i].template_id, score)
                  ELSE BestFrom(signature, known, i + 1, best_id, best_score)

\* Mutant: best_score starts at 0.0, so a profile scoring 0.0 never wins.
ClassifyKnown_startAtZero(signature, threshold, known) ==
    LET best == BestFrom(signature, known, 1, Null, 0)
    IN  IF known = <<>> THEN <<"unknown", 0, TRUE>>
        ELSE IF best[1] = Null THEN <<"unknown", 0, TRUE>>
        ELSE <<best[1], best[2], best[2] < threshold>>

\* Mutant: "<=" for "<" in the threshold test.
ClassifyKnown_atMost(signature, threshold, known) ==
    LET best == BestFrom(signature, known, 1, Null, -ScoreOne)
    IN  IF known = <<>> THEN <<"unknown", 0, TRUE>>
        ELSE IF best[1] = Null THEN <<"unknown", 0, TRUE>>
        ELSE <<best[1], best[2], best[2] <= threshold>>

\* classify_template with the store given (lines 304-326):
\* (best_id, score, is_unforeseen).
ClassifyKnown(signature, threshold, known) ==
    LET best == BestFrom(signature, known, 1, Null, -ScoreOne)
    IN  IF known = <<>> THEN <<"unknown", 0, TRUE>>
        ELSE IF best[1] = Null THEN <<"unknown", 0, TRUE>>
        ELSE <<best[1], best[2], best[2] < threshold>>

\* classify_template(signature, threshold, known_fingerprints): karg.given
\* is FALSE for known_fingerprints=None, and then the file is loaded.
classify_template(signature, threshold, karg, file) ==
    LET loaded == IF karg.given THEN Returned(karg.store)
                  ELSE load_known_fingerprints(file)
    IN  IF loaded.raised THEN loaded
        ELSE Returned(ClassifyKnown(signature, threshold, loaded.value))

\* ---------------------------------------------------------------- dicts
\* A Python dict is a function on its key set.
DictSet(d, k, v) == [x \in DOMAIN d \cup {k} |-> IF x = k THEN v ELSE d[x]]
DictPop(d, k) == [x \in DOMAIN d \ {k} |-> d[x]]
DictSetDefault(d, k, v) == IF k \in DOMAIN d THEN d ELSE DictSet(d, k, v)
EmptyDict == [x \in {} |-> Null]
\* bool(v) of a scalar field value: None and "" are false.
Truthy(v) == v # Null /\ v # ""
\* bool(d.get(k)) for a scalar field k.
GetTruthy(d, k) == k \in DOMAIN d /\ Truthy(d[k])

\* ------------------------------------------------- invoice schema (v1)
\* The `preferred` order of normalize_to_invoice_schema_v1; with line_items
\* these are the keys of base_schema() in invoice_parser.py.
preferred ==
    << "invoice_number", "invoice_date", "due_date",
       "patient_id", "patient_name", "patient_age", "patient_address",
       "patient_phone", "patient_email",
       "admission_date", "discharge_date",
       "subtotal_amount", "discount_amount", "total_amount",
       "provider_name", "bed_id" >>
InvoiceSchemaFields == {preferred[i] : i \in 1..Len(preferred)} \cup {"line_items"}

\* k.lower().startswith('tax'), over the keys that occur in the model.
StartsWithTax(k) == k \in {"tax", "tax_percent", "tax_amount", "Tax Rate"}

normalize_to_invoice_schema_v1(data) ==
    LET out0 == data
        \* account_number -> patient_id
        out1 == IF "patient_id" \notin DOMAIN out0 /\ GetTruthy(out0, "account_number")
                THEN DictSet(DictPop(out0, "account_number"),
                             "patient_id", out0["account_number"])
                ELSE DictPop(out0, "account_number")
        \* drop tax-ish keys
        out2 == [k \in {x \in DOMAIN out1 : ~StartsWithTax(x)} |-> out1[k]]
        \* ensure nullable keys exist
        out3 == DictSetDefault(DictSetDefault(DictSetDefault(DictSetDefault(
                    out2, "provider_name", Null), "bed_id", Null),
                    "patient_phone", Null), "patient_email", Null)
    IN  \* preferred keys present, then every other key, then line_items
        [k \in DOMAIN out3 \cup {"line_items"} |->
            IF k = "line_items"
            THEN IF "line_items" \in DOMAIN out3 THEN out3["line_items"] ELSE <<>>
            ELSE out3[k]]

\* ------------------------------------------------- parser_prototype.py
A_RAW == "12 Main St, Springfield, IL 62704"
A_FLAT == "12 Main St Springfield IL 62704"

ErrorDict(msg) == [k \in {"error"} |-> msg]

\* An address split over two lines: the street after the label, then the city.
HasTwoLineAddress(txt) ==
    \E i \in 1..(Len(txt) - 1) :
        txt[i] = "Address: 12 Main St" /\ txt[i + 1] = "Springfield, IL 62704"

detect_template(txt) ==
    IF Has(txt, {L_HSU, L_HST}) THEN "T1"
    ELSE IF Has(txt, {L_RPC}) THEN "T2"
    ELSE IF Has(txt, {L_WPH}) THEN "T3"
    ELSE Null

\* The collapse of blanks inside a line and LABEL_NORMALIZATIONS, on one
\* fragment.  The rules run in list order, each on the result of the one
\* before: "Sub\s*Total" gives "Subtotal", then "Total\s*:\s*" matches the
\* "total: " inside "Subtotal: " and puts "Total " there, and
\* "Subtotal\s*:\s*" finds no colon left.
_normalize_labels(frag) ==
    IF frag = L_WPH2 THEN L_WPH
    ELSE IF frag = L_DUE2 THEN L_DUE
    ELSE IF frag \in {"Subtotal: $120.00", "Sub Total: $120.00"}
    THEN "SubTotal $120.00"
    ELSE IF frag \in {"SubTotal $120.00", "Sub Total $120.00"}
    THEN "Subtotal $120.00"
    ELSE frag

\* _collapse_layout_keep_lines(txt) on the lines of a text whose first and
\* last lines are not blank: "\n{3,}" -> "\n\n" leaves one of several
\* consecutive empty lines (a line of blanks is not empty there), then each
\* line is stripped.
_collapse_layout_keep_lines(lines) ==
    LET idx == SelectSeq([i \in 1..Len(lines) |-> i],
                         LAMBDA i : lines[i] # "" \/ i = 1 \/ lines[i - 1] # "")
    IN  [k \in 1..Len(idx) |-> IF lines[idx[k]] = " " THEN "" ELSE lines[idx[k]]]

\* _preprocess_T1/_T2/_T3(raw_text): (prepped_text, admission, discharge).
\* No fragment carries an admission or discharge date, and the line
\* stitching of each preprocessor (and the address stitching of T1) finds
\* nothing to join in these fragments.  T1 strips the right end of each line
\* before the collapse.
_preprocess_T1(raw_text) ==
    LET labelled == [i \in 1..Len(raw_text) |-> _normalize_labels(raw_text[i])]
        lines == [i \in 1..Len(raw_text) |->
                    IF labelled[i] = " " THEN "" ELSE labelled[i]]
    IN  [text |-> _collapse_layout_keep_lines(lines), adm |-> Null, dis |-> Null]
_preprocess_T2(raw_text) ==
    [text |-> _collapse_layout_keep_lines(
                [i \in 1..Len(raw_text) |-> _normalize_labels(raw_text[i])]),
     adm |-> Null, dis |-> Null]
_preprocess_T3(raw_text) ==
    [text |-> _collapse_layout_keep_lines(
                [i \in 1..Len(raw_text) |-> _normalize_labels(raw_text[i])]),
     adm |-> Null, dis |-> Null]

\* A date string "p1 sep p2 sep p3" as DATE_TOKEN captures it: the parts are
\* numbers, written with two digits below 100 and with four from 1000 on.
\* Python's None is the date string NoDate.
NoDate == [sep |-> Null, p1 |-> 0, p2 |-> 0, p3 |-> 0]

\* Mutant: the day-first formats are missing.
fmts_monthFirstOnly == <<"%Y-%m-%d", "%m/%d/%Y", "%m/%d/%y", "%d %b %Y", "%d %B %Y">>
fmts == <<"%Y-%m-%d", "%m/%d/%Y", "%m/%d/%y", "%d/%m/%Y", "%d/%m/%y",
          "%d %b %Y", "%d %B %Y">>

\* _parse_date(s): the date of the first format datetime.strptime accepts
\* (%Y takes four digits, %y two, %m and %d one or two; the date must exist),
\* ok = FALSE for None.
_parse_date(s) ==
    LET Date(y, m, d) == [ok |-> TRUE, y |-> y, m |-> m, d |-> d]
        DaysIn(y, m) == IF m = 2 THEN (IF y % 4 = 0 /\ (y % 100 # 0 \/ y % 400 = 0)
                                       THEN 29 ELSE 28)
                        ELSE IF m \in {4, 6, 9, 11} THEN 30 ELSE 31
        Exists(y, m, d) == m \in 1..12 /\ d >= 1 /\ d <= DaysIn(y, m)
        Y(p) == p >= 1000
        y2(p) == IF p < 69 THEN 2000 + p ELSE 1900 + p
        strptime(f) ==
            IF f = "%Y-%m-%d" /\ s.sep = "-" /\ Y(s.p1) /\ s.p2 < 100 /\ s.p3 < 100
            THEN Date(s.p1, s.p2, s.p3)
            ELSE IF f = "%m/%d/%Y" /\ s.sep = "/" /\ s.p1 < 100 /\ s.p2 < 100 /\ Y(s.p3)
            THEN Date(s.p3, s.p1, s.p2)
            ELSE IF f = "%m/%d/%y" /\ s.sep = "/" /\ s.p1 < 100 /\ s.p2 < 100 /\ s.p3 < 100
            THEN Date(y2(s.p3), s.p1, s.p2)
            ELSE IF f = "%d/%m/%Y" /\ s.sep = "/" /\ s.p1 < 100 /\ s.p2 < 100 /\ Y(s.p3)
            THEN Date(s.p3, s.p2, s.p1)
            ELSE IF f = "%d/%m/%y" /\ s.sep = "/" /\ s.p1 < 100 /\ s.p2 < 100 /\ s.p3 < 100
            THEN Date(y2(s.p3), s.p2, s.p1)
            ELSE Date(0, 0, 0)
        Accepts(f) == Exists(strptime(f).y, strptime(f).m, strptime(f).d)
        hits == SelectSeq(fmts, Accepts)
    IN  IF hits = <<>> THEN [ok |-> FALSE, y |-> 0, m |-> 0, d |-> 0]
        ELSE strptime(hits[1])

\* norm_date(s): d.isoformat(), or None.
norm_date(s) ==
    LET d == _parse_date(s)
    IN  IF d.ok THEN [sep |-> "-", p1 |-> d.y, p2 |-> d.m, p3 |-> d.d] ELSE NoDate

\* _normalize_us_phone(s) on a string given as its characters.  The result is
\* a record: none for None, else the characters returned.
_normalize_us_phone(s) ==
    LET digits == SelectSeq(s, LAMBDA c :
                     c \in {"0", "1", "2", "3", "4", "5", "6", "7", "8", "9"})
        n == Len(digits)
        last10 == SubSeq(digits, n - 9, n)
    IN  IF s = <<>> THEN [none |-> TRUE, chars |-> <<>>]
        ELSE IF n >= 10
        THEN [none |-> FALSE,
              chars |-> SubSeq(last10, 1, 3) \o <<"-">> \o SubSeq(last10, 4, 6)
                        \o <<"-">> \o SubSeq(last10, 7, 10)]
        ELSE IF n >= 7 THEN [none |-> FALSE, chars |-> digits]
        ELSE [none |-> TRUE, chars |-> <<>>]

FIELD_PATTERNS ==
    << "invoice_number", "account_number", "invoice_date", "due_date",
       "admission_date", "discharge_date", "patient_name", "patient_age",
       "patient_address", "bed_id", "provider_name",
       "subtotal_amount", "discount_amount", "total_amount" >>

\* m.groups()[-1] for m = FIELD_PATTERNS[key].search(text); Null for no match.
\* The invoice_date pattern "(?:Invoice\s*Date|Date)" also matches the
\* "Date: ..." inside a due date line.
\* The patient_address pattern "Address:\s*(.+?)\s*(?=...|$)" is compiled
\* with re.DOTALL and not re.MULTILINE: its group runs over the line break to
\* the city line.
PatternSearch(key, txt) ==
    IF key = "account_number" /\ Has(txt, {L_ACC}) THEN "AC-7"
    ELSE IF key \in {"invoice_date", "due_date"} /\ Has(txt, {L_DUE, L_DUE2})
    THEN "2020-04-30"
    ELSE IF key = "invoice_date" /\ Has(txt, {"Invoice Date: 2020-02-01"})
    THEN "2020-02-01"
    ELSE IF key = "patient_address" /\ Has(txt, {L_ADDR}) THEN A_RAW
    ELSE IF key = "patient_address" /\ HasTwoLineAddress(txt)
    THEN "12 Main St\nSpringfield, IL 62704"
    ELSE Null

\* float(x) on a string given as its characters: an optional sign, then
\* digits with at most one "." and at least one digit; anything else is a
\* ValueError (none).  The value is in units of 1/10000.
float(x) ==
    LET IsDigit(c) == c \in {"0", "1", "2", "3", "4", "5", "6", "7", "8", "9"}
        Val(c) == CHOOSE v \in 0..9 :
                     c = <<"0", "1", "2", "3", "4", "5", "6", "7", "8", "9">>[v + 1]
        signed == x # <<>> /\ x[1] \in {"-", "+"}
        body == IF signed THEN Tail(x) ELSE x
        dots == SelectSeq([i \in 1..Len(body) |-> i], LAMBDA i : body[i] = ".")
        dot == IF dots = <<>> THEN Len(body) + 1 ELSE dots[1]
        Pow10(k) == IF k = 1 THEN 10 ELSE IF k = 2 THEN 100
                    ELSE IF k = 3 THEN 1000 ELSE 10000
        Abs[i \in 0..Len(body)] ==
            IF i = 0 THEN 0
            ELSE IF i = dot THEN Abs[i - 1]
            ELSE IF i < dot THEN 10 * Abs[i - 1] + 10000 * Val(body[i])
            ELSE Abs[i - 1] + (10000 \div Pow10(i - dot)) * Val(body[i])
        wellFormed == /\ Len(dots) <= 1
                      /\ \A i \in 1..Len(body) : body[i] = "." \/ IsDigit(body[i])
                      /\ \E i \in 1..Len(body) : IsDigit(body[i])
        magnitude == Abs[Len(body)]
    IN  IF ~wellFormed THEN [none |-> TRUE, units |-> 0]
        ELSE [none |-> FALSE,
              units |-> IF signed /\ x[1] = "-" THEN 0 - magnitude ELSE magnitude]

\* Mutant: the minus sign is kept by the character filter.
clean_and_convert_keepSign(key, value) ==
    IF key \in {"subtotal_amount", "discount_amount", "total_amount", "amount"}
    THEN float(SelectSeq(value, LAMBDA c :
                  c \in {"0", "1", "2", "3", "4", "5", "6", "7", "8", "9", ".", "-"}))
    ELSE IF value \in {A_RAW, "12 Main St\nSpringfield, IL 62704"} THEN A_FLAT
    ELSE value
\* clean_and_convert(key, value): whitespace collapsed and commas removed;
\* dates through norm_date; amounts (strings given as their characters)
\* through float(re.sub(r"[^\d.]", "", cleaned)), None on ValueError.
clean_and_convert(key, value) ==
    IF key \in {"subtotal_amount", "discount_amount", "total_amount", "amount"}
    THEN float(SelectSeq(value, LAMBDA c :
                  c \in {"0", "1", "2", "3", "4", "5", "6", "7", "8", "9", "."}))
    ELSE IF value \in {A_RAW, "12 Main St\nSpringfield, IL 62704"} THEN A_FLAT
    ELSE value

\* T1/T2: the "Address:" line (T1 would join the next line, but looks for it
\* in the text that starts with the line break, where the first line is
\* empty); T3: the lines under "BILLED TO" (there are none); otherwise the
\* generic pattern.
extract_patient_address_by_template(txt, template) ==
    IF template = "T3" THEN Null
    ELSE IF Has(txt, {L_ADDR}) THEN A_RAW
    ELSE IF HasTwoLineAddress(txt)
    THEN IF template \in {"T1", "T2"} THEN "12 Main St"
         ELSE "12 Main St\nSpringfield, IL 62704"
    ELSE Null

_normalize_us_address(addr) ==
    IF addr = A_FLAT THEN A_RAW
    ELSE IF addr = "12 Main St\nSpringfield, IL 62704"
    THEN "12 Main St Springfield, IL 62704"
    ELSE addr

_postprocess_uniformity(data) ==
    IF GetTruthy(data, "patient_address")
    THEN DictSet(data, "patient_address", _normalize_us_address(data["patient_address"]))
    ELSE data

extract_fields(prepped_text) ==
    LET keys == {FIELD_PATTERNS[i] : i \in 1..Len(FIELD_PATTERNS)}
        data0 == [k \in keys |->
                     IF PatternSearch(k, prepped_text) = Null THEN Null
                     ELSE clean_and_convert(k, PatternSearch(k, prepped_text))]
        \* no fragment carries an e-mail address or a phone number
        data1 == DictSet(DictSet(data0, "patient_email", Null), "patient_phone", Null)
        template == detect_template(prepped_text)
        addr == extract_patient_address_by_template(prepped_text, template)
        data2 == IF Truthy(addr) THEN DictSet(data1, "patient_address", addr)
                 ELSE data1
    IN  _postprocess_uniformity(data2)

\* page.extract_words(): a page has words exactly when it has text.
extract_words(page) == page.text

\* sorted(words, key=lambda x: (round(w["top"], 1), w["x0"])): the key reads
\* w, which is unbound while the list is being sorted.
_group_words_by_line(words) ==
    IF words = <<>> THEN Returned(<<>>) ELSE Raised("NameError")

extract_address_T1_spatial(page) ==
    IF extract_words(page) = <<>> THEN Returned(Null)
    ELSE LET lines == _group_words_by_line(extract_words(page))
         IN  IF lines.raised THEN lines ELSE Returned(Null)

\* _is_summary_row(desc, code): (desc or "").strip().lower(), or the code,
\* is in SUMMARY_DESC, or the description is such a term followed by ":".
_is_summary_row(desc, code) ==
    LET InSummary(x) == x \in {"Total", "TOTAL", "Subtotal", "Discount", "Tax"}
    IN  InSummary(desc) \/ InSummary(code) \/ desc \in {"Total:", "Subtotal:"}

\* The items of the table loop of extract_line_items.  first_page is what
\* first_page.extract_tables(...) does: raise, or return tables whose rows
\* are lists of cells.  Column indexes count from 1 here, 0 is None.
TableItems(first_page) ==
    LET lower(c) == IF c = "Code" THEN "code"
                    ELSE IF c = "Description" THEN "description"
                    ELSE IF c = "Amount" THEN "amount"
                    ELSE IF c = "Note" THEN "note" ELSE c
        sanitize_code_cell(c) == IF c = "Lab Panel" THEN "LabPanel"
                                 ELSE IF c = "$120.00" THEN "12000"
                                 ELSE IF c = "$50.00" THEN "5000" ELSE c
        IsCode(c) == c \in {"LP12", "XR20"}            \* CODE_RE.fullmatch
        HasDigit(c) == c \in {"LP12", "XR20", "$120.00", "$50.00"}
        HasAmount(c) == c \in {"$120.00", "$50.00"}   \* ([\d,]+\.\d{2})
        Amount(c) == IF c = "$120.00" THEN 12000 ELSE 5000
        StrLen(c) == IF c = "" THEN 0 ELSE IF c = "Lab Panel" THEN 9 ELSE 5
        In(header, c) == \E i \in 1..Len(header) : lower(header[i]) = c
        index(header, c) == CHOOSE i \in 1..Len(header) :
                                /\ lower(header[i]) = c
                                /\ \A j \in 1..(i - 1) : lower(header[j]) # c
        find_idx(header, cands) ==
            IF \A k \in 1..Len(cands) : ~In(header, cands[k]) THEN 0
            ELSE index(header, cands[CHOOSE k \in 1..Len(cands) :
                                        /\ In(header, cands[k])
                                        /\ \A j \in 1..(k - 1) : ~In(header, cands[j])])
        RowItems(header, cells) ==
            LET idx_code == find_idx(header, <<"code">>)
                idx_desc == find_idx(header, <<"particulars", "description",
                                               "item", "service">>)
                idx_amt == find_idx(header, <<"amount", "price", "total">>)
                code0 == IF idx_code # 0 /\ idx_code <= Len(cells)
                         THEN sanitize_code_cell(cells[idx_code]) ELSE Null
                desc0 == IF idx_desc # 0 /\ idx_desc <= Len(cells)
                         THEN cells[idx_desc] ELSE ""
                has_amt == idx_amt <= Len(cells) /\ HasAmount(cells[idx_amt])
                codes == SelectSeq(cells, LAMBDA c : IsCode(sanitize_code_cell(c)))
                code == IF (code0 \in {Null, ""} \/ ~IsCode(code0)) /\ codes # <<>>
                        THEN sanitize_code_cell(codes[1]) ELSE code0
                cand_desc == SelectSeq(cells, LAMBDA c :
                                ~HasDigit(c) /\ ~IsCode(sanitize_code_cell(c)))
                longest == CHOOSE i \in 1..Len(cand_desc) :
                              /\ \A j \in 1..Len(cand_desc) :
                                    StrLen(cand_desc[j]) <= StrLen(cand_desc[i])
                              /\ \A j \in 1..(i - 1) :
                                    StrLen(cand_desc[j]) < StrLen(cand_desc[i])
                desc == IF desc0 = "" /\ cand_desc # <<>> THEN cand_desc[longest]
                        ELSE desc0
            IN  IF _is_summary_row(desc0, code0) THEN <<>>
                ELSE IF desc # "" /\ has_amt /\ (code = Null \/ IsCode(code))
                THEN <<[description |-> desc, code |-> code,
                        amount |-> Amount(cells[idx_amt])]>>
                ELSE <<>>
        OfTable(table) ==
            IF table = <<>> \/ table[1] = <<>> THEN <<>>
            ELSE IF find_idx(table[1], <<"amount", "price", "total">>) = 0 THEN <<>>
            ELSE Concat([r \in 1..(Len(table) - 1) |->
                            RowItems(table[1], table[r + 1])], 1)
    IN  IF first_page.raises THEN <<>>
        ELSE Concat([t \in 1..Len(first_page.tables) |->
                        OfTable(first_page.tables[t])], 1)

\* The items of fallback n of extract_line_items over the lines of the text:
\* 1 "CODE DESC $AMT", 2 "DESC CODE $AMT", 3 "DESC $AMT" with the code taken
\* out of the description.  Lines that start with a summary term match none.
LineItems(n, prepped_text) ==
    LET Item(d, c, a) == <<[description |-> d, code |-> c, amount |-> a]>>
        OfLine(frag) ==
            IF frag = "LP12 Lab Panel $120.00"
            THEN IF n = 2 THEN <<>> ELSE Item("Lab Panel", "LP12", 12000)
            ELSE IF frag = "LP12 Total $120.00"
            THEN IF n = 2 THEN <<>> ELSE Item("Total", "LP12", 12000)
            ELSE IF frag = "X-Ray XR20 $50.00"
            THEN IF n = 1 THEN <<>> ELSE Item("X-Ray", "XR20", 5000)
            ELSE IF frag = "Office Visit $75.00"
            THEN IF n = 3 THEN Item("Office Visit", Null, 7500) ELSE <<>>
            ELSE <<>>
    IN  Concat([i \in 1..Len(prepped_text) |-> OfLine(prepped_text[i])], 1)

\* Mutant: the "DESC CODE $AMT" lines are tried before the "CODE DESC $AMT"
\* lines.
FirstYield_swapped(table, f1, f2, f3) ==
    IF table # <<>> THEN table
    ELSE IF f2 # <<>> THEN f2
    ELSE IF f1 # <<>> THEN f1
    ELSE f3
\* `if not items:` before each fallback: the first strategy that yields an
\* item gives the items.
FirstYield(table, f1, f2, f3) ==
    IF table # <<>> THEN table
    ELSE IF f1 # <<>> THEN f1
    ELSE IF f2 # <<>> THEN f2
    ELSE f3

extract_line_items(first_page, prepped_text) ==
    FirstYield(TableItems(first_page), LineItems(1, prepped_text),
               LineItems(2, prepped_text), LineItems(3, prepped_text))

\* The date-list rule of parse_invoice for a missing due date: canon are the
\* normalized dates of the header, inv is data.get("invoice_date").
DueFromHeader(canon, inv) ==
    IF Truthy(inv) /\ (\E i \in 1..Len(canon) : canon[i] = inv) /\ Len(canon) > 1
    THEN LET others == SelectSeq(canon, LAMBDA d : d # inv)
         IN  IF others = <<>> THEN Null ELSE others[1]
    ELSE IF Len(canon) >= 2 THEN canon[2]
    ELSE Null

\* parse_invoice(prepped_text, page, admission_override, discharge_override).
\* With these fragments the BILLED TO fallback finds nothing, the address
\* clean-up changes nothing, and extract_line_items finds no row.
\* _patient_name_fallback takes the line "Patient Details" for a name.
\* The due date inference reads the lines up to the first "Patient Details"
\* line: re.findall(DATE_TOKEN, hdr) gives the date strings of these lines
\* (as records here; sep " " for a day, a word and a year), norm_date and
\* isoformat() give canon.
parse_invoice(prepped_text, page, admission_override, discharge_override) ==
    LET override(data, key, value) ==
            IF ~GetTruthy(data, key) /\ Truthy(value)
            THEN DictSet(data, key, value)
            ELSE data
        data2 == override(override(extract_fields(prepped_text),
                                   "admission_date", admission_override),
                          "discharge_date", discharge_override)
        template == detect_template(prepped_text)
        addr_geo == IF template = "T1" THEN extract_address_T1_spatial(page)
                    ELSE Returned(Null)
        address(data) ==
            IF GetTruthy(data, "patient_address")
            THEN DictSet(data, "patient_address",
                         _normalize_us_address(data["patient_address"]))
            ELSE data
        name(data) ==
            IF ~GetTruthy(data, "patient_name")
               /\ Has(prepped_text, {"Patient Details"})
            THEN DictSet(data, "patient_name", "Patient Details")
            ELSE data
        data3n == name(address(data2))
        Pad2(n) == IF n < 10 THEN "0" \o ToString(n) ELSE ToString(n)
        isoformat(d) == ToString(d.p1) \o "-" \o Pad2(d.p2) \o "-" \o Pad2(d.p3)
        Token(y, m, d) == <<[sep |-> "-", p1 |-> y, p2 |-> m, p3 |-> d]>>
        findall(line) ==
            IF line = "Printed 2020-01-05" THEN Token(2020, 1, 5)
            ELSE IF line = "Invoice Date: 2020-02-01" THEN Token(2020, 2, 1)
            ELSE IF line = "Service 2020-03-10" THEN Token(2020, 3, 10)
            ELSE IF line = "Ref 03-30-2020" THEN Token(3, 30, 2020)
            ELSE IF line \in {L_DUE, L_DUE2} THEN Token(2020, 4, 30)
            ELSE <<>>
        ends == SelectSeq([i \in 1..Len(prepped_text) |-> i],
                          LAMBDA i : prepped_text[i] = "Patient Details")
        header == IF ends = <<>> THEN prepped_text
                  ELSE SubSeq(prepped_text, 1, ends[1])
        \* The third shape of DATE_TOKEN, "\d{1,2}\s+[A-Za-z]{3,9}\s+\d{2,4}", runs
        \* over the line break: the "30" of a net term, the word that starts
        \* the next line and the digits after it make one token.  What is left
        \* of that line's date matches nothing but ends in digits again, so
        \* the line after it is taken the same way.
        bare == {"Printed 2020-01-05", "Service 2020-03-10", "Ref 03-30-2020"}
        across[i \in 1..Len(header)] ==
            /\ i > 1
            /\ header[i] \in bare
            /\ header[i - 1] = "Terms: Net 30" \/ across[i - 1]
        tail(line) == IF line = "Terms: Net 30" THEN 30
                      ELSE IF line = "Printed 2020-01-05" THEN 5
                      ELSE IF line = "Service 2020-03-10" THEN 10 ELSE 20
        raw_dates ==
            Concat([i \in 1..Len(header) |->
                IF across[i]
                THEN <<[sep |-> " ", p1 |-> tail(header[i - 1]), p2 |-> 0,
                        p3 |-> IF header[i] = "Ref 03-30-2020" THEN 3 ELSE 2020]>>
                ELSE findall(header[i])], 1)
        parsed == SelectSeq([i \in 1..Len(raw_dates) |-> norm_date(raw_dates[i])],
                            LAMBDA d : d # NoDate)
        canon == [i \in 1..Len(parsed) |-> isoformat(parsed[i])]
        \* date(y, mth, d) of inv.split("-") and invd + timedelta(days=30),
        \* for dates of the year 2020
        Dates2020 == {d \in [sep : {"-"}, p1 : {2020}, p2 : 1..12, p3 : 1..31] :
                         _parse_date(d).ok}
        toordinal(d) == <<0, 31, 60, 91, 121, 152, 182, 213, 244, 274, 305,
                          335>>[d.p2] + d.p3
        net(inv) ==
            LET invd == CHOOSE d \in Dates2020 : isoformat(d) = inv
            IN  isoformat(CHOOSE d \in Dates2020 :
                              toordinal(d) = toordinal(invd) + 30)
        due(inv, listed) ==
            IF Truthy(listed) THEN listed
            ELSE IF Truthy(inv) /\ Has(header, {"Terms: Net 30"}) THEN net(inv)
            ELSE listed
        due_date(data) ==
            IF GetTruthy(data, "due_date") THEN data
            ELSE DictSet(data, "due_date",
                         due(data["invoice_date"],
                             DueFromHeader(canon, data["invoice_date"])))
        items(data) == [k \in DOMAIN data \cup {"line_items"} |->
                           IF k = "line_items" THEN <<>> ELSE data[k]]
        untaxed(data) == [k \in {x \in DOMAIN data : ~StartsWithTax(x)} |-> data[k]]
    IN  IF addr_geo.raised THEN addr_geo
        ELSE Returned(_postprocess_uniformity(untaxed(items(due_date(data3n)))))

parse_pdf_bytes(doc) ==
    IF doc.kind # "pdf" \/ doc.pages = <<>>
    THEN ErrorDict("An unexpected error occurred during PDF processing")
    ELSE
    LET page == doc.pages[1]
        raw_text == page.text
        templ == detect_template(raw_text)
        pre == IF templ = "T1" THEN _preprocess_T1(raw_text)
               ELSE IF templ = "T2" THEN _preprocess_T2(raw_text)
               ELSE IF templ = "T3" THEN _preprocess_T3(raw_text)
               ELSE _preprocess_T1(raw_text)
        parsed == parse_invoice(pre.text, page, pre.adm, pre.dis)
    IN  IF raw_text = <<>> THEN ErrorDict("Could not extract text from PDF.")
        ELSE IF parsed.raised
        THEN ErrorDict("An unexpected error occurred during PDF processing")
        ELSE normalize_to_invoice_schema_v1(parsed.value)

\* ---------------------------------------------- consentform_parser.py
TEMPLATE_1_IDENTIFIER == L_OMS
TEMPLATE_2_IDENTIFIER == L_HIPAA
\* The flag constant re.MULTILINE, as a field value.
MULTILINE == "re.MULTILINE"

ConsentFields ==
    { "patient_name", "patient_first_name", "patient_middle_name",
      "patient_last_name", "patient_address_name", "patient_id", "patient_dob",
      "patient_signature", "patient_state", "patient_city", "patient_zip_code",
      "provider_name", "provider_address_name", "provider_phone", "provider_fax",
      "provider_state", "provider_city", "provider_zip_code",
      "family_name", "family_relation", "family_phone", "family_address_name",
      "family_state", "family_city", "family_zip_code",
      "guardian_name", "guardian_signature", "guardian_relation",
      "date", "expiration_date", "expiration_event",
      "translator_name", "translator_signature" }

\* match.group(1).strip() for re.search(pattern, text, IGNORECASE | DOTALL |
\* MULTILINE), Null without a match.  A pattern is named by its literal part.
Search(pattern, text) ==
    IF pattern = "5. PRINT NAME OF PATIENT" /\ Has(text, {L_PNAME})
    THEN "Courtney Wilcox"
    ELSE IF pattern = "NAME .. PHONE" /\ Has(text, {L_PROV}) THEN "Dr. Steven Walker"
    ELSE IF pattern = "PHONE" /\ Has(text, {L_PROV}) THEN "406-647-6837"
    ELSE IF pattern = "First Name:" /\ Has(text, {L_SEC1}) THEN "Courtney"
    ELSE IF pattern = "Last Name:" /\ Has(text, {L_SEC1}) THEN "Thomas"
    ELSE Null

extract_field(text, pattern, default) ==
    IF Search(pattern, text) # Null THEN Search(pattern, text) ELSE default

\* parts[0] and parts[-1] of name.split().
FirstPart(name) == IF name = "Courtney Wilcox" THEN "Courtney" ELSE name
LastPart(name) == IF name = "Courtney Wilcox" THEN "Wilcox" ELSE name

\* The calls for the provider fields pass re.MULTILINE in the place of
\* `default`; expiration_event is assigned a fixed sentence.
parse_template_1(text_content) ==
    LET patient_name == extract_field(text_content, "5. PRINT NAME OF PATIENT", Null)
    IN  [k \in ConsentFields |->
            CASE k = "patient_name" -> patient_name
              [] k = "patient_signature" ->
                    extract_field(text_content, "7. SIGNATURE OF PATIENT", Null)
              [] k = "patient_first_name" ->
                    IF Truthy(patient_name) THEN FirstPart(patient_name) ELSE Null
              [] k = "patient_last_name" ->
                    IF Truthy(patient_name) THEN LastPart(patient_name) ELSE Null
              [] k = "provider_name" -> extract_field(text_content, "NAME .. PHONE", MULTILINE)
              [] k = "provider_phone" -> extract_field(text_content, "PHONE", MULTILINE)
              [] k = "provider_fax" -> extract_field(text_content, "FAX", MULTILINE)
              [] k = "provider_address_name" ->
                    extract_field(text_content, "ADDRESS .. CITY", MULTILINE)
              [] k = "provider_city" -> extract_field(text_content, "CITY .. STATE", MULTILINE)
              [] k = "provider_state" -> extract_field(text_content, "STATE .. ZIP", MULTILINE)
              [] k = "provider_zip_code" -> extract_field(text_content, "ZIP", MULTILINE)
              [] k = "date" -> extract_field(text_content, "9. DATE OF SIGNATURE", Null)
              [] k = "expiration_date" -> extract_field(text_content, "TO", Null)
              [] k = "expiration_event" -> "Six months from date of signature"
              [] k = "guardian_signature" ->
                    extract_field(text_content,
                        "8. SIGNATURE OF PARENT/GUARDIAN/POWER OF ATTORNEY", Null)
              [] OTHER -> Null]

\* The text from "Section <start> -" up to "Section <end> -"; when that
\* does not match: from "Section <start> -" to the end if end > 4, else "".
get_section_text(start_section, end_section, text) ==
    IF start_section = 1 /\ end_section = 2 /\ Has(text, {L_SEC1})
    THEN <<L_SEC1>> ELSE <<>>

\* " ".join(filter(None, [first, last]))
JoinNames(first, last) ==
    IF Truthy(first) /\ Truthy(last)
    THEN (IF first = "Courtney" /\ last = "Thomas" THEN "Courtney Thomas" ELSE first)
    ELSE IF Truthy(first) THEN first
    ELSE IF Truthy(last) THEN last
    ELSE ""

parse_template_2(text_content) ==
    LET sec1_text == get_section_text(1, 2, text_content)
        sec2_text == get_section_text(2, 3, text_content)
        sec3_text == get_section_text(3, 4, text_content)
        sec4_text == get_section_text(4, 5, text_content)
        first == extract_field(sec1_text, "First Name:", Null)
        last == extract_field(sec1_text, "Last Name:", Null)
    IN  [k \in ConsentFields |->
            CASE k = "patient_first_name" -> first
              [] k = "patient_last_name" -> last
              [] k = "patient_middle_name" -> extract_field(sec1_text, "Middle Name:", Null)
              [] k = "patient_dob" -> extract_field(sec1_text, "Date of Birth:", Null)
              [] k = "patient_id" -> extract_field(sec1_text, "Reference N:", Null)
              [] k = "patient_address_name" -> extract_field(sec1_text, "Address:", Null)
              [] k = "patient_name" -> JoinNames(first, last)
              [] k = "provider_name" -> extract_field(sec2_text, "Name:", Null)
              [] k = "provider_address_name" -> extract_field(sec2_text, "Address:", Null)
              [] k = "family_name" -> extract_field(sec3_text, "Name:", Null)
              [] k = "family_relation" ->
                    extract_field(sec3_text, "Relationship to Patient/Plan Member:", Null)
              [] k = "family_phone" -> extract_field(sec3_text, "Telephone N:", Null)
              [] k = "family_address_name" -> extract_field(sec3_text, "Address:", Null)
              [] k = "expiration_event" -> extract_field(sec4_text, "Expiration Event:", Null)
              [] k = "expiration_date" -> extract_field(sec4_text, "Expiration Date:", Null)
              [] OTHER -> Null]

\* parse_consent_pdf_bytes(pdf_bytes).  empty_text is what page.extract_text
\* gives for a page without text: "None" (the sum with "\n\n" then raises
\* TypeError, which the handler turns into an error object) or "".
parse_consent_pdf_bytes(doc, empty_text) ==
    IF doc.kind # "pdf"
       \/ (empty_text = "None" /\ \E i \in 1..Len(doc.pages) : doc.pages[i].text = <<>>)
    THEN ErrorDict("Failed to extract text from PDF using pdfplumber")
    ELSE
    LET text_content == Concat([i \in 1..Len(doc.pages) |-> doc.pages[i].text], 1)
    IN  IF Has(text_content, {TEMPLATE_1_IDENTIFIER})
        THEN DictSet(parse_template_1(text_content), "template",
                     "Template 1 (Occupational Medical Service)")
        ELSE IF Has(text_content, {TEMPLATE_2_IDENTIFIER})
        THEN DictSet(parse_template_2(text_content), "template",
                     "Template 2 (HIPAA Authorization Form)")
        ELSE ErrorDict("Unknown consent form template detected.")

\* -------------------------------------------------- invoice_parser.py
base_schema == [k \in InvoiceSchemaFields |-> IF k = "line_items" THEN <<>> ELSE Null]

\* Keys whose value is None are removed; empty strings and lists stay.
remove_nulls(obj) ==
    [k \in {x \in DOMAIN obj : x = "line_items" \/ obj[x] # Null} |-> obj[k]]

\* The lines of parsed_texts/<doc_id>.txt: "\n--- Page i ---\n<text>\n" for
\* each page, the text being "" for a page without text.
PageMark(i) == IF i = 1 THEN "--- Page 1 ---" ELSE "--- Page 2 ---"
TextFile(pages) ==
    Concat([i \in 1..Len(pages) |->
               <<"", PageMark(i)>>
               \o (IF pages[i].text = <<>> THEN <<"">> ELSE pages[i].text)], 1)

\* No fragment names a doctor, so provider_name takes the hospital's name;
\* the invoice line, patient lines, amounts and item rows match nothing.
parse_hot_springs(text) ==
    [base_schema EXCEPT !["provider_name"] = "Hot Springs General Hospital"]

\* Due date by "Due\s*Date[:\s]*(date)"; the invoice date pattern excludes a
\* date after "Due "; patient_name is the second line under the clinic's
\* name, if the file has one.
parse_rose_petal(text) ==
    LET heads == {i \in 1..Len(text) : text[i] = L_RPC /\ i + 2 <= Len(text)}
        i0 == CHOOSE i \in heads : \A j \in heads : i <= j
        patient_name == IF heads = {} THEN Null
                        ELSE IF text[i0 + 2] = "" THEN Null ELSE text[i0 + 2]
    IN  [base_schema EXCEPT
            !["due_date"] = IF Has(text, {L_DUE, L_DUE2}) THEN "2020-04-30" ELSE Null,
            !["patient_name"] = patient_name]

\* "Due Date\s*(date)" does not match a due date written with a colon.
parse_white_petal(text) == base_schema

\* One document through both loops of the script: fingerprint, classify,
\* log, write the text file, dispatch on the text, parse, strip nulls.
\* The result holds what the run leaves behind for the document.
invoice_parser(doc, file) ==
    LET sig == detect_template_signature(doc)
        detection == IF sig.raised THEN sig
                     ELSE classify_template(sig.value, DefaultThreshold,
                                            [given |-> FALSE, store |-> <<>>], file)
        text == TextFile(doc.pages)
        template == IF Has(text, {L_HSU}) THEN "hot_springs"
                    ELSE IF Has(text, {L_RPC}) THEN "rose_petal"
                    ELSE IF Has(text, {L_WPH, L_WPH2}) THEN "white_petal"
                    ELSE "unknown"
        parsed == IF template = "hot_springs" THEN parse_hot_springs(text)
                  ELSE IF template = "rose_petal" THEN parse_rose_petal(text)
                  ELSE IF template = "white_petal" THEN parse_white_petal(text)
                  ELSE DictSet(base_schema, "error", "Unknown template")
    IN  IF detection.raised THEN detection
        ELSE Returned([template_id |-> detection.value[1],
                       score |-> detection.value[2],
                       is_unforeseen |-> detection.value[3],
                       template |-> template,
                       parsed |-> parsed,
                       cleaned |-> remove_nulls(parsed)])

\* ------------------------------------------------------------------ inputs
Fonts == {"Helvetica", "Times"}

\* Signatures handed to the classifier; the slots not listed are 0.
SignatureOf(pc, hs, cl, co, fonts) ==
    MkFingerprint(pc, 0, 0, 0, 0, 0, 0, fonts, hs, 0, 0, cl, 0, co, 0, 0)
Signatures ==
    { SignatureOf(pc, hs, cl, co, fonts) :
        pc \in {0, 1}, hs \in {0, 4}, cl \in {0, 3}, co \in {0, 1},
        fonts \in {<<>>, <<"Helvetica">>} }

\* Fingerprints stored as profiles (a hand-edited store may hold any number).
ProfileFps ==
    { SignatureOf(x[1], x[2], 0, 0, <<x[3]>>) :
        x \in { <<1, 0, "Helvetica">>, <<0, 1, "Helvetica">>,
                <<1, 1, "Times">>, <<0, -1, "Times">> } }
StoreValues == {JsonOther} \cup {JsonDict(fp) : fp \in ProfileFps}

\* Stores of n profiles: entry i carries TemplateIds[i].
StoresOfLen(n) ==
    { [i \in 1..n |-> [template_id |-> TemplateIds[i], value |-> f[i]]] :
        f \in [1..n -> StoreValues] }
Stores == UNION { StoresOfLen(n) : n \in 0..MaxProfiles }

KnownArgs == {[given |-> FALSE, store |-> <<>>]}
             \cup {[given |-> TRUE, store |-> s] : s \in Stores}
Thresholds == {DefaultThreshold, ScoreOne}

\* The store file as the profile builder leaves it (its profiles carry the
\* geometric slots and top_fonts, no keyword slot, which reads as 0), or
\* missing, or not JSON.
BuiltStore ==
    << [template_id |-> "T1_hot_springs",
        value |-> JsonDict(MkFingerprint(2, 8, 10, 2, 0, 0, 2, <<"Helvetica">>,
                                         0, 0, 0, 0, 0, 0, 0, 0))],
       [template_id |-> "T2_rose_petal",
        value |-> JsonDict(MkFingerprint(2, 8, 10, 0, 0, 2, 2, <<"Times">>,
                                         0, 0, 0, 0, 0, 0, 0, 0))] >>
StoreFiles ==
    { [state |-> "missing", data |-> <<>>],
      [state |-> "corrupt", data |-> <<>>],
      [state |-> "ok", data |-> BuiltStore] }

\* Raw field maps handed to the schema normalizer.
OneLineItem == <<[description |-> "Lab Panel", code |-> "LP12", amount |-> "120.00"]>>
RawKeys == {"invoice_number", "patient_id", "provider_name", "line_items",
            "account_number", "tax_amount", "error"}
RawValue(k, acct) ==
    IF k = "line_items" THEN OneLineItem
    ELSE IF k = "account_number" THEN acct
    ELSE IF k = "invoice_number" THEN "INV-1001"
    ELSE IF k = "patient_id" THEN "P-9"
    ELSE IF k = "provider_name" THEN "Dr. Steven Walker"
    ELSE IF k = "tax_amount" THEN "4.00"
    ELSE "Unknown template"
RawMaps ==
    { [k \in keys |-> RawValue(k, acct)] :
        keys \in SUBSET RawKeys, acct \in {Null, "AC-7"} }

\* Documents.  Pages are 4 wide and 5 high unless said otherwise.
MissingDoc == Doc("missing", <<>>)
CorruptDoc == Doc("corrupt", <<>>)
BlankPage == Page(2, 5, <<>>, <<>>)

\* Documents to fingerprint: no page at all, or up to two characters on the
\* first page and an optional blank second page.
FpChars == {Char(4, 1, "Helvetica"), Char(2, 1, "Times"), Char(0, 1, "Helvetica")}
FpCharSeqs == {<<>>} \cup {<<c>> : c \in FpChars}
              \cup {<<c, d>> : c \in FpChars, d \in FpChars}
FpTexts == {<<>>, <<L_HSU>>, <<L_RPC, L_DUE>>, <<L_HIPAA>>, <<L_ACC>>}
FpDocs ==
    {MissingDoc, CorruptDoc, Doc("pdf", <<>>)}
    \cup {d \in {Doc("pdf", <<Page(4, 5, chars, txt)>> \o rest) :
                    chars \in FpCharSeqs, txt \in FpTexts,
                    rest \in {<<>>, <<BlankPage>>}} :
            \* extract_text() of a page without characters is empty
            d.pages[1].chars = <<>> => d.pages[1].text = <<>>}

\* One-page invoices: an optional header line, then label lines.
TextPage(txt) ==
    Page(4, 5, IF txt = <<>> THEN <<>> ELSE <<Char(4, 1, "Helvetica")>>, txt)
InvoiceTexts ==
    { (IF h = Null THEN <<>> ELSE <<h>>) \o Pick(<<L_ACC, L_ADDR, d>>, keep) :
        h \in {Null, L_HSU, L_HST, L_RPC, L_WPH, L_WPH2},
        d \in {L_DUE, L_DUE2},
        keep \in SUBSET {L_ACC, L_ADDR, L_DUE, L_DUE2} }
InvoiceDocs ==
    {CorruptDoc} \cup {Doc("pdf", <<TextPage(txt)>>) : txt \in InvoiceTexts}

\* Consent forms: one page, or the first form page followed by a blank one.
ConsentTexts ==
    { Pick(<<L_OMS, L_PNAME, L_PROV, L_HIPAA, L_SEC1>>, keep) :
        keep \in SUBSET {L_OMS, L_PNAME, L_PROV, L_HIPAA, L_SEC1} }
ConsentDocs ==
    {CorruptDoc, Doc("pdf", <<TextPage(<<L_OMS>>), BlankPage>>)}
    \cup {Doc("pdf", <<TextPage(txt)>>) : txt \in ConsentTexts}

\* Preprocessed texts for extract_fields: an optional header, then the
\* address on one line or on two.
FieldTexts ==
    { (IF h = Null THEN <<>> ELSE <<h>>) \o body :
        h \in {Null, L_HSU, L_RPC, L_WPH},
        body \in { <<L_ADDR>>,
                   <<"Address: 12 Main St", "Springfield, IL 62704">>,
                   <<L_ACC, "Address: 12 Main St", "Springfield, IL 62704", L_DUE>> } }

\* Raw texts for the preprocessors: a header line, then possibly empty lines
\* or lines of blanks, a due date line, possibly a subtotal line.
PrepTexts ==
    { <<h>> \o gap \o <<d>> \o sub :
        h \in {L_HSU, L_WPH2},
        gap \in {<<>>, <<" ">>, <<"", "">>, <<" ", "">>, <<" ", " ", " ">>},
        d \in {L_DUE, L_DUE2},
        sub \in {<<>>, <<"Subtotal: $120.00">>, <<"Sub Total $120.00">>,
                 <<"Subtotal $120.00">>} }

\* The signatures a session classifies, as the pipeline does after
\* detect_template_signature: the first has no identity keyword, the second
\* counts HOT SPRINGS GENERAL HOSPITAL.
SessionSignatures ==
    { MkFingerprint(2, 8, 10, 2, 0, 0, 2, <<"Helvetica">>, hs, 0, 0, 0, ho, 0, 0, 0) :
        hs \in {0, 4}, ho \in {0} }

\* The exemplar folders known_templates/<template_id>/ the builder finds: no
\* exemplar at all, two exemplars of one template, one exemplar of the other
\* template, an exemplar that cannot be opened.
BuildFolders ==
    LET Exemplar(chars, txt) == <<Doc("pdf", <<Page(4, 5, chars, txt)>>)>>
        E1 == Exemplar(<<Char(4, 1, "Helvetica")>>, <<L_HSU>>)
        E2 == Exemplar(<<Char(2, 1, "Times"), Char(2, 1, "Times")>>, <<L_HSU, L_DUE>>)
        E3 == Exemplar(<<Char(2, 1, "Times")>>, <<L_RPC>>)
        Folders(d1, d2) == << [template_id |-> "T1_hot_springs", docs |-> d1],
                              [template_id |-> "T2_rose_petal", docs |-> d2] >>
    IN  { Folders(<<>>, <<>>), Folders(E1 \o E2, <<>>), Folders(<<>>, E3),
          Folders(<<CorruptDoc>>, E3) }

\* The history of a session.  phase: 0 before the pipeline's first
\* classify_template(signature) call, 1 once it is made (with its signature
\* and what it gave), 2 once another call followed it, 3 once the same
\* signature was classified again after that.  rewritten: the builder has
\* written to the store file since the first call.
NoSession ==
    [phase |-> 0, signature |-> Null, outcome |-> "none", ret |-> Null,
     rewritten |-> FALSE]
OtherCall(h) == IF h.phase = 1 THEN [h EXCEPT !.phase = 2] ELSE h
StoreWritten(h) == IF h.phase > 0 THEN [h EXCEPT !.rewritten = TRUE] ELSE h

\* ----------------------------------------------------------------- actions
Init ==
    /\ storeFile \in StoreFiles
    /\ detectionLog = 0
    /\ op = "idle"
    /\ arg = Null
    /\ outcome = "none"
    /\ ret = Null
    /\ session = NoSession
    /\ build = [pc |-> "idle", template_fps |-> <<>>]

Finish(r) ==
    /\ outcome' = IF r.raised THEN "raised" ELSE "returned"
    /\ ret' = r.value

\* fingerprint_similarity(fp1, fp2), with the value of `score` after each step.
CallFingerprintSimilarity ==
    /\ op = "idle"
    /\ \E fp1 \in Signatures, fp2 \in ProfileFps :
          /\ op' = "fingerprint_similarity"
          /\ arg' = [fp1 |-> fp1, fp2 |-> fp2]
          /\ Finish(Returned([after_font |-> ScoreAfterFont(fp1, fp2),
                              after_penalty |-> ScoreAfterPenalty(fp1, fp2),
                              final |-> fingerprint_similarity(fp1, fp2)]))
    /\ UNCHANGED <<storeFile, detectionLog, session, build>>

\* normalize_to_invoice_schema_v1(data)
CallNormalizeSchema ==
    /\ op = "idle"
    /\ \E data \in RawMaps :
          /\ op' = "normalize_to_invoice_schema_v1"
          /\ arg' = data
          /\ Finish(Returned(normalize_to_invoice_schema_v1(data)))
    /\ UNCHANGED <<storeFile, detectionLog, session, build>>

\* classify_template(signature, threshold, known_fingerprints)
CallClassifyTemplate ==
    /\ op = "idle"
    /\ \E signature \in Signatures, threshold \in Thresholds, karg \in KnownArgs :
          /\ op' = "classify_template"
          /\ arg' = [signature |-> signature, threshold |-> threshold, known |-> karg]
          /\ Finish(classify_template(signature, threshold, karg, storeFile))
    /\ UNCHANGED <<storeFile, detectionLog, session, build>>

\* _preprocess_T1/_T2/_T3(raw), and the same preprocessor on the text it
\* returned.
CallPreprocess ==
    /\ op = "idle"
    /\ \E template \in {"T1", "T2", "T3"}, raw \in PrepTexts :
          LET prep(txt) == IF template = "T1" THEN _preprocess_T1(txt)
                           ELSE IF template = "T2" THEN _preprocess_T2(txt)
                           ELSE _preprocess_T3(txt)
          IN  /\ op' = "_preprocess"
              /\ arg' = [template |-> template, raw |-> raw]
              /\ Finish(Returned([once |-> prep(raw),
                                  twice |-> prep(prep(raw).text)]))
    /\ UNCHANGED <<storeFile, detectionLog, session, build>>

\* detect_template_signature(pdf_path)
CallDetectTemplateSignature ==
    /\ op = "idle"
    /\ \E doc \in FpDocs :
          /\ op' = "detect_template_signature"
          /\ arg' = doc
          /\ Finish(detect_template_signature(doc))
    /\ UNCHANGED <<storeFile, detectionLog, session, build>>

\* extract_fields(prepped_text)
CallExtractFields ==
    /\ op = "idle"
    /\ \E prepped_text \in FieldTexts :
          /\ op' = "extract_fields"
          /\ arg' = prepped_text
          /\ Finish(Returned(extract_fields(prepped_text)))
    /\ UNCHANGED <<storeFile, detectionLog, session, build>>

\* extract_line_items(first_page, prepped_text): no table, a failing table
\* extraction, or one table; lines of the three shapes, a subtotal line, a
\* coded line described as "Total".
CallExtractLineItems ==
    /\ op = "idle"
    /\ \E first_page \in
            {[raises |-> TRUE, tables |-> <<>>]}
            \cup {[raises |-> FALSE, tables |-> t] : t \in
                    { <<>>,
                      << << <<"Code", "Description", "Amount">>,
                            <<"LP12", "Lab Panel", "$120.00">>,
                            <<"", "Total", "$120.00">> >> >>,
                      << << <<"Code", "Description", "Amount">>,
                            <<"", "Lab Panel", "$50.00">> >> >>,
                      << << <<"Code", "Description">>,
                            <<"LP12", "Lab Panel">> >> >>,
                      << << <<"Description", "Amount", "Note">>,
                            <<"", "$120.00", "Total">> >> >> }},
          keep \in SUBSET {"LP12 Lab Panel $120.00", "X-Ray XR20 $50.00",
                           "Office Visit $75.00", "Subtotal $120.00",
                           "LP12 Total $120.00"} :
          LET prepped_text == Pick(<<"X-Ray XR20 $50.00", "LP12 Lab Panel $120.00",
                                     "Office Visit $75.00", "LP12 Total $120.00",
                                     "Subtotal $120.00">>, keep)
          IN  /\ op' = "extract_line_items"
              /\ arg' = [first_page |-> first_page, prepped_text |-> prepped_text]
              /\ Finish(Returned(extract_line_items(first_page, prepped_text)))
    /\ UNCHANGED <<storeFile, detectionLog, session, build>>

\* clean_and_convert(key, value) for the amount keys, on the strings of up to
\* MaxMoneyLen characters over a currency sign, a sign, a grouping comma, a
\* point and two digits.
CallCleanAndConvert ==
    /\ op = "idle"
    /\ \E key \in {"subtotal_amount", "amount"}, n \in 0..MaxMoneyLen :
          \E value \in [1..n -> {"$", "-", ",", ".", "1", "2"}] :
              /\ op' = "clean_and_convert"
              /\ arg' = [key |-> key, value |-> value]
              /\ Finish(Returned(clean_and_convert(key, value)))
    /\ UNCHANGED <<storeFile, detectionLog, session, build>>

\* norm_date(s), as clean_and_convert calls it for the four date fields, on
\* the date strings DATE_TOKEN captures with "-" or "/".
CallNormDate ==
    /\ op = "idle"
    /\ \E sep \in {"-", "/"}, p1, p2, p3 \in {2, 3, 13, 20, 30, 2020} :
          LET s == [sep |-> sep, p1 |-> p1, p2 |-> p2, p3 |-> p3]
          IN  /\ (p1 >= 1000 => sep = "-") /\ p2 < 1000
              /\ op' = "norm_date"
              /\ arg' = s
              /\ Finish(Returned(norm_date(s)))
    /\ UNCHANGED <<storeFile, detectionLog, session, build>>

\* _normalize_us_phone(s) on the tails of "+1 (555) 123-4567", and on that
\* number behind one more digit.
CallNormalizeUsPhone ==
    /\ op = "idle"
    /\ LET number == <<"+", "1", " ", "(", "5", "5", "5", ")", " ",
                       "1", "2", "3", "-", "4", "5", "6", "7">>
       IN  \E s \in {SubSeq(number, i, Len(number)) : i \in 1..(Len(number) + 1)}
                    \cup {<<"0">> \o SubSeq(number, 2, Len(number))} :
              /\ op' = "_normalize_us_phone"
              /\ arg' = s
              /\ Finish(Returned(_normalize_us_phone(s)))
    /\ UNCHANGED <<storeFile, detectionLog, session, build>>

\* parse_invoice(prepped_text, page) on texts of up to MaxHeaderLines lines
\* with bare dates, an invoice date, a net term and the section boundary; no
\* line carries a due date label.
CallParseInvoice ==
    /\ op = "idle"
    /\ \E n \in 0..MaxHeaderLines :
          \E text \in [1..n -> {"Printed 2020-01-05", "Invoice Date: 2020-02-01",
                                "Service 2020-03-10", "Ref 03-30-2020",
                                "Terms: Net 30", "Patient Details"}] :
              /\ op' = "parse_invoice"
              /\ arg' = text
              /\ Finish(parse_invoice(text, TextPage(text), Null, Null))
    /\ UNCHANGED <<storeFile, detectionLog, session, build>>

\* parse_pdf_bytes(pdf_bytes)
CallParsePdfBytes ==
    /\ op = "idle"
    /\ \E doc \in InvoiceDocs :
          /\ op' = "parse_pdf_bytes"
          /\ arg' = doc
          /\ Finish(Returned(parse_pdf_bytes(doc)))
    /\ UNCHANGED <<storeFile, detectionLog, session, build>>

\* parse_consent_pdf_bytes(pdf_bytes)
CallParseConsentPdfBytes ==
    /\ op = "idle"
    /\ \E doc \in ConsentDocs, empty_text \in {"None", ""} :
          /\ op' = "parse_consent_pdf_bytes"
          /\ arg' = doc
          /\ Finish(Returned(parse_consent_pdf_bytes(doc, empty_text)))
    /\ UNCHANGED <<storeFile, detectionLog, session, build>>

\* check_for_unforeseen_template(pdf_path, run_id, doc_id): the signature,
\* the classification against the store file, one line appended to the
\* detection log by log_template_detection, then "unforeseen" or the
\* template id.  Nothing is logged when one of the first two steps raises.
CallCheckForUnforeseenTemplate ==
    /\ op = "idle"
    /\ detectionLog < MaxLogLines
    /\ \E doc \in InvoiceDocs :
          LET signature == detect_template_signature(doc)
              detection == IF signature.raised THEN signature
                           ELSE classify_template(signature.value, DefaultThreshold,
                                    [given |-> FALSE, store |-> <<>>], storeFile)
          IN  /\ op' = "check_for_unforeseen_template"
              /\ arg' = doc
              /\ Finish(IF detection.raised THEN detection
                        ELSE IF detection.value[3] THEN Returned("unforeseen")
                        ELSE Returned(detection.value[1]))
              /\ detectionLog' = IF detection.raised THEN detectionLog
                                 ELSE detectionLog + 1
    /\ UNCHANGED <<storeFile, session, build>>

\* invoice_parser.py on one document of the invoice folder.  The detection
\* is logged once signature and classification have returned.
RunInvoiceParserOn(docs) ==
    /\ op = "idle"
    /\ detectionLog < MaxLogLines
    /\ \E doc \in docs :
          /\ op' = "invoice_parser"
          /\ arg' = doc
          /\ Finish(invoice_parser(doc, storeFile))
          /\ detectionLog' = IF invoice_parser(doc, storeFile).raised
                             THEN detectionLog ELSE detectionLog + 1
    /\ session' = OtherCall(session)
    /\ UNCHANGED <<storeFile, build>>

RunInvoiceParser == RunInvoiceParserOn(InvoiceDocs)

\* The caller takes the result; the files stay as the call left them.
Return ==
    /\ op # "idle"
    /\ op' = "idle"
    /\ arg' = Null
    /\ outcome' = "none"
    /\ ret' = Null
    /\ UNCHANGED <<storeFile, detectionLog, session, build>>

\* classify_template(sig) as invoice_parser.py and
\* check_for_unforeseen_template call it: default threshold, the store read
\* from the file by this call.
PipelineClassifyTemplate ==
    /\ op = "idle"
    /\ \E signature \in SessionSignatures :
          LET karg == [given |-> FALSE, store |-> <<>>]
              r == classify_template(signature, DefaultThreshold, karg, storeFile)
          IN  /\ op' = "classify_template"
              /\ arg' = [signature |-> signature, threshold |-> DefaultThreshold,
                         known |-> karg]
              /\ Finish(r)
              /\ session' =
                    IF session.phase = 0
                    THEN [NoSession EXCEPT !.phase = 1,
                                           !.signature = signature,
                                           !.outcome = IF r.raised THEN "raised"
                                                       ELSE "returned",
                                           !.ret = r.value]
                    ELSE IF session.signature # signature THEN OtherCall(session)
                    ELSE IF session.phase = 2 THEN [session EXCEPT !.phase = 3]
                    ELSE session
    /\ UNCHANGED <<storeFile, detectionLog, build>>

\* build_template_fps.main up to open(OUTPUT_JSON, "w"): the exemplars are
\* fingerprinted and averaged, then the output file is truncated.  An
\* exemplar that cannot be fingerprinted ends main before the file is opened.
\* A call is one step here, so the builder's steps fall between calls.
BuildOpenOutput ==
    /\ op = "idle"
    /\ build.pc = "idle"
    /\ \E folders \in BuildFolders :
          /\ ~main(folders).raised
          /\ build' = [pc |-> "open", template_fps |-> main(folders).value]
    /\ storeFile' = [state |-> "corrupt", data |-> <<>>]
    /\ session' = StoreWritten(session)
    /\ UNCHANGED <<detectionLog, op, arg, outcome, ret>>

\* json.dump(template_fps, f, indent=2) and the close of the file.
BuildDumpJson ==
    /\ op = "idle"
    /\ build.pc = "open"
    /\ storeFile' = [state |-> "ok", data |-> build.template_fps]
    /\ build' = [pc |-> "idle", template_fps |-> <<>>]
    /\ session' = StoreWritten(session)
    /\ UNCHANGED <<detectionLog, op, arg, outcome, ret>>

Next ==
    \/ CallFingerprintSimilarity
    \/ CallClassifyTemplate
    \/ CallNormalizeSchema
    \/ CallDetectTemplateSignature
    \/ CallPreprocess
    \/ CallExtractFields
    \/ CallExtractLineItems
    \/ CallCleanAndConvert
    \/ CallNormDate
    \/ CallNormalizeUsPhone
    \/ CallParseInvoice
    \/ CallParsePdfBytes
    \/ CallParseConsentPdfBytes
    \/ CallCheckForUnforeseenTemplate
    \/ RunInvoiceParser
    \/ Return

Spec == Init /\ [][Next]_vars

\* A classification session of the pipeline while the profile builder may run.
SessionNext ==
    \/ PipelineClassifyTemplate
    \/ RunInvoiceParserOn({CorruptDoc, Doc("pdf", <<TextPage(<<L_HSU, L_ACC>>)>>)})
    \/ BuildOpenOutput
    \/ BuildDumpJson
    \/ Return

SessionSpec == Init /\ [][SessionNext]_vars

\* ------------------------------------------------------------------ claims
\* C1: for every raw field map, the record the schema normalizer returns has
\* exactly the invoice schema's keys: unknown keys are dropped and every
\* absent schema key is inserted.
C1_KeySetIsSchema ==
    (op = "normalize_to_invoice_schema_v1" /\ outcome = "returned") =>
        DOMAIN ret = InvoiceSchemaFields

\* A document that opens and whose pages have no text.
EmptyTextDoc(doc) ==
    /\ doc.kind = "pdf"
    /\ doc.pages # <<>>
    /\ \A i \in 1..Len(doc.pages) : doc.pages[i].text = <<>>

\* C2: extracting from a document whose text is empty never raises and
\* returns a record (not an error object) in which every schema field is
\* null and line_items is the empty list.
C2_EmptyTextGivesNullRecord ==
    (op \in {"parse_pdf_bytes", "parse_consent_pdf_bytes"} /\ EmptyTextDoc(arg)) =>
        /\ outcome = "returned"
        /\ "error" \notin DOMAIN ret
        /\ \A k \in DOMAIN ret \ {"line_items"} : ret[k] = Null
        /\ "line_items" \in DOMAIN ret => ret["line_items"] = <<>>
        /\ op = "parse_pdf_bytes" => InvoiceSchemaFields \subseteq DOMAIN ret

\* The text of all pages of a document.
DocText(doc) == Concat([i \in 1..Len(doc.pages) |-> doc.pages[i].text], 1)

\* C3: when the classification of a document is unforeseen, or no known
\* template is recognized in it, extraction still returns a record that
\* conforms to the schema; the unrecognized layout never shows as an error
\* result or as an extra "error" key.
C3_UnforeseenStillConformant ==
    /\ (op = "invoice_parser" /\ outcome = "returned"
        /\ (ret.is_unforeseen \/ ret.template = "unknown")) =>
           DOMAIN ret.parsed = InvoiceSchemaFields
    /\ (op = "parse_consent_pdf_bytes" /\ outcome = "returned"
        /\ arg.kind = "pdf" /\ DocText(arg) # <<>>
        /\ ~Has(DocText(arg), {TEMPLATE_1_IDENTIFIER, TEMPLATE_2_IDENTIFIER})) =>
           "error" \notin DOMAIN ret
    /\ (op = "parse_pdf_bytes" /\ outcome = "returned"
        /\ arg.kind = "pdf" /\ DocText(arg) # <<>>
        /\ detect_template(DocText(arg)) = Null) =>
           "error" \notin DOMAIN ret

\* The fragments in which some extraction pattern of a consent field matches.
ConsentEvidence(k) ==
    IF k \in {"patient_name", "patient_first_name", "patient_last_name"}
    THEN {L_PNAME, L_SEC1}
    ELSE IF k \in {"provider_name", "provider_phone"} THEN {L_PROV}
    ELSE {}

\* C4: an output field for which no extraction strategy matches is null in
\* the output of every rule set: not an empty string, not a placeholder or
\* other non-null value.
C4_UnmatchedFieldIsNull ==
    /\ (op = "parse_consent_pdf_bytes" /\ outcome = "returned"
        /\ "error" \notin DOMAIN ret) =>
           \A k \in ConsentFields :
               ~Has(DocText(arg), ConsentEvidence(k)) => ret[k] = Null
    /\ (op = "invoice_parser" /\ outcome = "returned"
        /\ ret.template = "hot_springs") =>
           ret.parsed["provider_name"] = Null

\* C5: fingerprinting, classification and extraction return a value for
\* every input, also with a missing or corrupt store file and with pages
\* without text; no exception reaches the caller.
C5_EveryOperationReturns ==
    op \in {"detect_template_signature", "classify_template",
            "parse_pdf_bytes", "parse_consent_pdf_bytes"} =>
        outcome = "returned"

Classified == op = "classify_template" /\ outcome = "returned"

\* The store a finished classify_template call scored against.
UsedStore ==
    IF arg.known.given THEN arg.known.store
    ELSE load_known_fingerprints(storeFile).value

\* The entries of a store whose scoring does not raise.
Scorable(known) == {i \in 1..Len(known) : known[i].value.is_fp}
ScoreOf(known, i) == fingerprint_similarity(arg.signature, known[i].value.fp)

\* C6: classify_template returns exactly ("unknown", 0.0, True) when the
\* store is empty and when scoring raises for every profile of the store; in
\* every other case the template_id returned is a key of the store.
C6_UnknownOrStoreKey ==
    Classified =>
        IF Scorable(UsedStore) = {}
        THEN ret = <<"unknown", 0, TRUE>>
        ELSE \E i \in 1..Len(UsedStore) : ret[1] = UsedStore[i].template_id

C6_Witness_AllProfilesRaise ==
    /\ Classified
    /\ Len(UsedStore) = MaxProfiles
    /\ Scorable(UsedStore) = {}
    /\ ret = <<"unknown", 0, TRUE>>

\* C7: when some profile produces a valid score, is_unforeseen is true
\* exactly when the winning score is strictly below the threshold; a score
\* equal to the threshold is not unforeseen.
C7_UnforeseenIffBelowThreshold ==
    (Classified /\ Scorable(UsedStore) # {}) =>
        (ret[3] <=> ret[2] < arg.threshold)

C7_Witness_ScoreAtThreshold ==
    /\ Classified
    /\ Scorable(UsedStore) # {}
    /\ arg.threshold = DefaultThreshold
    /\ ret[2] = DefaultThreshold
    /\ ret[3] = FALSE

\* C8: classify_template returns the profile with the highest adjusted
\* score among those that scored, the first of them in the store's order
\* when several share that score; profiles whose scoring raised are skipped.
C8_FirstHighestWins ==
    (Classified /\ Scorable(UsedStore) # {}) =>
        \E i \in Scorable(UsedStore) :
            /\ ret[1] = UsedStore[i].template_id
            /\ ret[2] = ScoreOf(UsedStore, i)
            /\ \A j \in Scorable(UsedStore) :
                   /\ ScoreOf(UsedStore, j) <= ScoreOf(UsedStore, i)
                   /\ j < i => ScoreOf(UsedStore, j) < ScoreOf(UsedStore, i)

C8_Witness_TieGoesToFirst ==
    /\ Classified
    /\ Len(UsedStore) = 2
    /\ Scorable(UsedStore) = {1, 2}
    /\ ScoreOf(UsedStore, 1) = ScoreOf(UsedStore, 2)
    /\ ScoreOf(UsedStore, 1) > 0
    /\ ret[1] = UsedStore[1].template_id

\* C9: fingerprint_similarity returns a score in [0,1], the score is in
\* [0,1] after the font bonus, after the identity-keyword penalty and after
\* the form-class bonus, and so is every score classify_template returns.
C9_ScoreInUnitInterval ==
    /\ (op = "fingerprint_similarity" /\ outcome = "returned") =>
           /\ ret.after_font \in 0..ScoreOne
           /\ ret.after_penalty \in 0..ScoreOne
           /\ ret.final \in 0..ScoreOne
    /\ Classified => ret[2] \in 0..ScoreOne

C9_Witness_ClampActs ==
    /\ op = "fingerprint_similarity"
    /\ outcome = "returned"
    /\ ScoreBeforeFinalClamp(arg.fp1, arg.fp2) > ScoreOne
    /\ ret.final = ScoreOne

\* The final score the same two fingerprints get when the penalty of lines
\* 266-269 is left out.
ScoreWithoutPenalty(fp1, fp2) ==
    Clamp01(ScoreAfterFont(fp1, fp2)
            + IF has_consent_keywords(fp1) THEN ConsentBonus ELSE 0)

\* C10 as stated: for every document whose identity-keyword slots are all
\* zero, the final score is exactly half the final score without the
\* penalty, also when a form-class keyword slot is nonzero.
C10_Original_AlwaysHalf ==
    (op = "fingerprint_similarity" /\ outcome = "returned"
     /\ ~has_any_name(arg.fp1)) =>
        2 * ret.final = ScoreWithoutPenalty(arg.fp1, arg.fp2)

\* C10 amended: for every document whose identity-keyword slots are all
\* zero, the score after the penalty step is exactly half the score before
\* it, and the final score is exactly half the final score without the
\* penalty when the form-class keyword slots are all zero too.
C10_HalfBeforeFormClassBonus ==
    (op = "fingerprint_similarity" /\ outcome = "returned"
     /\ ~has_any_name(arg.fp1)) =>
        /\ 2 * ret.after_penalty = ret.after_font
        /\ ~has_consent_keywords(arg.fp1) =>
               2 * ret.final = ScoreWithoutPenalty(arg.fp1, arg.fp2)

C10_Witness_HalvedScore ==
    /\ op = "fingerprint_similarity"
    /\ outcome = "returned"
    /\ ~has_any_name(arg.fp1)
    /\ ~has_consent_keywords(arg.fp1)
    /\ ret.final > 0
    /\ 2 * ret.final = ScoreWithoutPenalty(arg.fp1, arg.fp2)

\* C11: a document whose fingerprint equals a stored profile's fingerprint
\* exactly (same slots and fonts) is classified with is_unforeseen = false,
\* also when its identity-keyword slots are all zero.
C11_ExactMatchIsForeseen ==
    (Classified /\ arg.threshold = DefaultThreshold
     /\ \E i \in Scorable(UsedStore) : UsedStore[i].value.fp = arg.signature) =>
        ret[3] = FALSE


\* A classification, in the session, of the signature classified first.
SameSignatureCall ==
    /\ op = "classify_template"
    /\ session.phase > 0
    /\ arg.signature = session.signature

C13_RebuildCannotChangeOrFail ==
    (SameSignatureCall /\ session.outcome = "returned") =>
        (outcome = "returned" /\ ret = session.ret)

\* C14: each preprocessor applied to its own output gives that output back,
\* for labels such as "Subtotal:" and "Sub Total" and for whitespace-only
\* lines.
C14_PreprocessIdempotent ==
    op = "_preprocess" => ret.twice = ret.once

\* C15: when the label-anchored patient_address pattern, the first strategy,
\* gives a value, extract_fields returns that value (in the uniform form of
\* _postprocess_uniformity); no later strategy replaces it.
C15_LabelAnchoredAddressIsKept ==
    (op = "extract_fields" /\ PatternSearch("patient_address", arg) # Null) =>
        ret["patient_address"] =
            _normalize_us_address(
                clean_and_convert("patient_address",
                                  PatternSearch("patient_address", arg)))

\* C16: extract_line_items returns the items of the table when the table
\* yields one; otherwise those of the "code description $amount" lines; only
\* when these yield none, those of the "description code $amount" lines.
\* Without a table, a line "LP12 Lab Panel $120.00" gives the item with code
\* LP12, description Lab Panel and amount 120.00.
C16_StrategyPriority ==
    op = "extract_line_items" =>
        LET table == TableItems(arg.first_page)
            f1 == LineItems(1, arg.prepped_text)
            f2 == LineItems(2, arg.prepped_text)
        IN  /\ table # <<>> => ret = table
            /\ (table = <<>> /\ f1 # <<>>) => ret = f1
            /\ (table = <<>> /\ f1 = <<>> /\ f2 # <<>>) => ret = f2
            /\ (arg.first_page.tables = <<>>
                /\ Has(arg.prepped_text, {"LP12 Lab Panel $120.00"})) =>
                    \E k \in 1..Len(ret) :
                        ret[k] = [description |-> "Lab Panel", code |-> "LP12",
                                  amount |-> 12000]

C16_Witness_CodeFirstLinesWin ==
    /\ op = "extract_line_items"
    /\ arg.first_page.tables = <<>>
    /\ arg.prepped_text = <<"X-Ray XR20 $50.00", "LP12 Lab Panel $120.00",
                            "Office Visit $75.00">>
    /\ ret = <<[description |-> "Lab Panel", code |-> "LP12", amount |-> 12000]>>

\* C17: no item extract_line_items returns is described by a summary term
\* (subtotal, discount, total, tax), whichever strategy gave it.
C17_NoSummaryTermItem ==
    op = "extract_line_items" =>
        \A k \in 1..Len(ret) :
            ret[k].description \notin
                {"Subtotal", "Discount", "Total", "Tax", "TOTAL"}

\* C18: norm_date maps an ISO date to itself, and a slash-separated date whose
\* day is greater than 12 to the same ISO date whether it is written
\* month-first or day-first ('2020-03-30', '03/30/2020' and '30/03/2020' all
\* give '2020-03-30').
C18_DayOver12SameIsoDate ==
    op = "norm_date" =>
        LET DayExists(m, d) == d >= 1 /\ (d <= 28 \/ (m # 2 /\ d <= 30))
            year == IF arg.p3 >= 1000 THEN arg.p3 ELSE 2000 + arg.p3
            iso(y, m, d) == [sep |-> "-", p1 |-> y, p2 |-> m, p3 |-> d]
        IN  /\ (arg.sep = "-" /\ arg.p1 >= 1000 /\ arg.p2 \in 1..12
                /\ DayExists(arg.p2, arg.p3)) => ret = arg
            /\ (arg.sep = "/" /\ arg.p1 \in 1..12 /\ arg.p2 > 12
                /\ DayExists(arg.p1, arg.p2)) => ret = iso(year, arg.p1, arg.p2)
            /\ (arg.sep = "/" /\ arg.p2 \in 1..12 /\ arg.p1 > 12
                /\ DayExists(arg.p2, arg.p1)) => ret = iso(year, arg.p2, arg.p1)

C18_Witness_DayFirstSlashDate ==
    /\ op = "norm_date"
    /\ arg = [sep |-> "/", p1 |-> 30, p2 |-> 3, p3 |-> 2020]
    /\ ret = [sep |-> "-", p1 |-> 2020, p2 |-> 3, p3 |-> 30]

\* C19: a date string of a shape the date coercion does not recognize (such
\* as the dash-separated '03-30-2020') is kept as it is for the field, not
\* dropped to null.
C19_UnrecognizedDateKept ==
    (op = "norm_date" /\ ~_parse_date(arg).ok) => ret = arg

\* C20: _normalize_us_phone returns, for every input, null or a string of the
\* form NNN-NNN-NNNN, and '+1 (555) 123-4567' gives '555-123-4567'.
C20_PhoneNullOrDashGrouped ==
    op = "_normalize_us_phone" =>
        /\ \/ ret.none
           \/ /\ Len(ret.chars) = 12
              /\ \A i \in 1..12 :
                    IF i \in {4, 8} THEN ret.chars[i] = "-"
                    ELSE ret.chars[i] \in {"0", "1", "2", "3", "4", "5", "6",
                                           "7", "8", "9"}
        /\ arg = <<"+", "1", " ", "(", "5", "5", "5", ")", " ",
                   "1", "2", "3", "-", "4", "5", "6", "7">>
             => ret.chars = <<"5", "5", "5", "-", "1", "2", "3", "-",
                              "4", "5", "6", "7">>

\* C21: clean_and_convert of an amount field returns, for every string, null
\* or a non-negative number; it never raises and never returns a negative
\* amount.
C21_MoneyNullOrNonNegative ==
    op = "clean_and_convert" =>
        /\ outcome = "returned"
        /\ ret.none \/ ret.units >= 0
        /\ (\A i \in 1..Len(arg.value) : arg.value[i] \in {"$", "-", ","}) => ret.none

C21_Witness_MinusSignStripped ==
    /\ op = "clean_and_convert"
    /\ arg.value = <<"-", "$", "1">>
    /\ outcome = "returned"
    /\ ret = [none |-> FALSE, units |-> 10000]

\* C22: a profile built from a non-empty exemplar set holds, for every
\* numeric fingerprint slot, the eight keyword slots included, the mean of
\* that slot over the exemplars.
C22_ProfileHoldsSlotMeans ==
    build.pc = "open" =>
        \A folders \in BuildFolders :
            (~main(folders).raised /\ main(folders).value = build.template_fps) =>
                \A k \in 1..Len(build.template_fps) :
                    LET folder == CHOOSE f \in {folders[i] : i \in 1..Len(folders)} :
                                     f.template_id = build.template_fps[k].template_id
                        sig(j) == detect_template_signature(folder.docs[j]).value
                        n == Len(folder.docs)
                    IN  \A key \in {"page_count", "avg_width", "avg_height",
                                    "header_text_density", "footer_text_density",
                                    "body_text_density", "avg_font_size",
                                    "kw_hot_springs", "kw_rose_petal",
                                    "kw_white_petal", "kw_clinic", "kw_hospital",
                                    "kw_consent", "kw_hipaa", "kw_authorization"} :
                            build.template_fps[k].value.fp[key] =
                                SumSeq([j \in 1..n |-> sig(j)[key]], 1) \div n

\* C23: fingerprinting, classification and extraction of a document leave
\* every external resource unchanged: no step of a pipeline operation writes
\* or appends to the profile store file or to the detection log.
C23_NoExternalWrite ==
    [][storeFile' = storeFile /\ detectionLog' = detectionLog]_vars

\* The ISO dates written on the lines of a text up to the first "Patient
\* Details" line, in text order.
HeaderIsoDates(text) ==
    LET ends == SelectSeq([i \in 1..Len(text) |-> i],
                          LAMBDA i : text[i] = "Patient Details")
        header == IF ends = <<>> THEN text ELSE SubSeq(text, 1, ends[1])
        written(line) == IF line = "Printed 2020-01-05" THEN <<"2020-01-05">>
                         ELSE IF line = "Invoice Date: 2020-02-01" THEN <<"2020-02-01">>
                         ELSE IF line = "Service 2020-03-10" THEN <<"2020-03-10">>
                         ELSE <<>>
    IN  Concat([i \in 1..Len(header) |-> written(header[i])], 1)

\* C24: when no due date label is found, parse_invoice sets due_date to the
\* second date, in text order, among the dates before the "Patient Details"
\* boundary, whether or not the invoice date is the first of them.
C24_DueIsSecondHeaderDate ==
    (op = "parse_invoice" /\ outcome = "returned"
        /\ Len(HeaderIsoDates(arg)) >= 2) =>
            ret["due_date"] = HeaderIsoDates(arg)[2]

\* C30: a due_date that parse_invoice inferred, with invoice_date not null,
\* is not earlier than invoice_date; inferred from a "Net 30" term alone it
\* is invoice_date plus 30 days.
C30_InferredDueNotBeforeInvoice ==
    (op = "parse_invoice" /\ outcome = "returned"
        /\ ret["invoice_date"] # Null /\ ret["due_date"] # Null) =>
            LET day == ("2020-01-05" :> 5 @@ "2020-02-01" :> 32
                        @@ "2020-03-02" :> 62 @@ "2020-03-10" :> 70)
            IN  /\ day[ret["due_date"]] >= day[ret["invoice_date"]]
                /\ (HeaderIsoDates(arg) = <<"2020-02-01">>
                    /\ Has(arg, {"Terms: Net 30"})) => ret["due_date"] = "2020-03-02"

\* C25: the template that chose the preprocessor in parse_pdf_bytes (detected
\* on the raw text) is the template extract_fields and parse_invoice use
\* (detected again on the preprocessed text).
C25_TemplateSelectedOnce ==
    (op = "parse_pdf_bytes" /\ arg.kind = "pdf" /\ arg.pages # <<>>
        /\ arg.pages[1].text # <<>>) =>
            LET raw_text == arg.pages[1].text
                templ == detect_template(raw_text)
                pre == IF templ = "T2" THEN _preprocess_T2(raw_text)
                       ELSE IF templ = "T3" THEN _preprocess_T3(raw_text)
                       ELSE _preprocess_T1(raw_text)
            IN  detect_template(pre.text) = templ

\* C26: for a T1 document whose first page has positioned tokens, the
\* positional address extractor groups the tokens into lines and reads the
\* address, and extraction completes with a record, not an error result.
C26_T1SpatialCompletes ==
    (op = "parse_pdf_bytes" /\ arg.kind = "pdf" /\ arg.pages # <<>>
        /\ extract_words(arg.pages[1]) # <<>>
        /\ detect_template(arg.pages[1].text) = "T1") =>
            /\ "error" \notin DOMAIN ret
            /\ ~_group_words_by_line(extract_words(arg.pages[1])).raised

\* C27: for a document with no characters on any page (a document with zero
\* pages included), detect_template_signature does not fail and returns a
\* fingerprint whose density, average-font-size and keyword slots are all 0
\* and whose top_fonts list is empty; every keyword slot of every fingerprint
\* is a number, 0 when no phrase of its group occurs.
C27_EmptyDocumentFingerprint ==
    (op = "detect_template_signature" /\ arg.kind = "pdf") =>
        LET kws == {"kw_hot_springs", "kw_rose_petal", "kw_white_petal",
                    "kw_clinic", "kw_hospital", "kw_consent", "kw_hipaa",
                    "kw_authorization"}
            empty == \A i \in 1..Len(arg.pages) :
                        arg.pages[i].chars = <<>> /\ arg.pages[i].text = <<>>
        IN  /\ outcome = "returned"
            /\ \A k \in kws :
                  /\ ret[k] \in Nat
                  /\ (\A i \in 1..Len(arg.pages) : \A j \in 1..Len(arg.pages[i].text) :
                         KeywordCount(k, arg.pages[i].text[j]) = 0) => ret[k] = 0
            /\ empty =>
                  /\ \A k \in kws \cup {"header_text_density", "footer_text_density",
                                        "body_text_density", "avg_font_size"} :
                        ret[k] = 0
                  /\ ret.top_fonts = <<>>

C27_Witness_ZeroPages ==
    /\ op = "detect_template_signature"
    /\ arg = Doc("pdf", <<>>)
    /\ outcome = "returned"
    /\ ret.page_count = 0 /\ ret.avg_width = 0 /\ ret.top_fonts = <<>>

\* C28: with the default threshold, a signature whose three name slots and
\* three consent slots are all zero is classified is_unforeseen=True with a
\* score of at most 0.5 against every store; a signature with a nonzero consent
\* slot scores at least 0.5 against every profile, and so does its
\* classification against a store with a profile that can be scored.
NoNameSlot(fp) == \A i \in 1..Len(NAME_KEYS) : fp[NAME_KEYS[i]] = 0
NoConsentSlot(fp) == \A i \in 1..Len(CONSENT_KEYS) : fp[CONSENT_KEYS[i]] = 0
C28_KeywordSlotsBoundScore ==
    /\ (Classified /\ arg.threshold = DefaultThreshold
         /\ NoNameSlot(arg.signature) /\ NoConsentSlot(arg.signature))
        => (ret[3] = TRUE /\ 2 * ret[2] <= ScoreOne)
    /\ (Classified /\ ~NoConsentSlot(arg.signature) /\ Scorable(UsedStore) # {})
        => 2 * ret[2] >= ScoreOne
    /\ (op = "fingerprint_similarity" /\ outcome = "returned"
         /\ ~NoConsentSlot(arg.fp1))
        => 2 * ret.final >= ScoreOne

C28_Witness_BestPlainScoreIsHalf ==
    /\ Classified /\ arg.threshold = DefaultThreshold
    /\ NoNameSlot(arg.signature) /\ NoConsentSlot(arg.signature)
    /\ Scorable(UsedStore) # {}
    /\ 2 * ret[2] = ScoreOne /\ ret[3] = TRUE

C28_Witness_ConsentAloneScoresHalf ==
    /\ op = "fingerprint_similarity" /\ outcome = "returned"
    /\ ~NoConsentSlot(arg.fp1)
    /\ ret.after_penalty = 0 /\ 2 * ret.final = ScoreOne

\* C29: the profile classify_template returns has the maximal unadjusted
\* similarity (cosine similarity plus font bonus, clamped to [0, 1]) among the
\* profiles of the store that can be scored.
Unadjusted(known, i) == ScoreAfterFont(arg.signature, known[i].value.fp)
C29_WinnerHasMaxUnadjusted ==
    (Classified /\ Scorable(UsedStore) # {})
        => \E i \in Scorable(UsedStore) :
              /\ UsedStore[i].template_id = ret[1]
              /\ \A j \in Scorable(UsedStore) :
                    Unadjusted(UsedStore, j) <= Unadjusted(UsedStore, i)
====
